---------------------------- MODULE Spec2Model ----------------------------
(***************************************************************************)
(* A model of the subtitle resolution pipeline of the background worker    *)
(* (src/src/background/background.ts): the message handler with its        *)
(* debounce record and per-tab cancellation contexts, the pipeline         *)
(* fetchSubtitle with every await as a step of its own, the recursive      *)
(* repository crawler, and the pure functions (title parser, variant       *)
(* generator, candidate matcher) as operators over strings.                *)
(*                                                                         *)
(* A JavaScript string is a sequence of one-character strings.  An absent  *)
(* (undefined) number is Undefined, an absent string is UndefStr.          *)
(***************************************************************************)
EXTENDS Integers, Sequences, FiniteSets, TLC

\* ------------------------------------------------------------------ strings

Undefined == -1
UndefStr == <<"<undefined>">>
Digits == <<"0", "1", "2", "3", "4", "5", "6", "7", "8", "9">>
UpperCase ==
    <<"A", "B", "C", "D", "E", "F", "G", "H", "I", "J", "K", "L", "M",
      "N", "O", "P", "Q", "R", "S", "T", "U", "V", "W", "X", "Y", "Z">>
LowerCase ==
    <<"a", "b", "c", "d", "e", "f", "g", "h", "i", "j", "k", "l", "m",
      "n", "o", "p", "q", "r", "s", "t", "u", "v", "w", "x", "y", "z">>

DigitSet == {Digits[i] : i \in 1..10}
UpperSet == {UpperCase[i] : i \in 1..26}
LowerMap == [c \in UpperSet |-> LowerCase[CHOOSE i \in 1..26 : UpperCase[i] = c]]

IsDigit(c) == c \in DigitSet
DigitVal(c) == (CHOOSE i \in 1..10 : Digits[i] = c) - 1
IsSpace(c) == c = " "

\* String.prototype.toLowerCase, one character
LowerChar(c) == IF c \in UpperSet THEN LowerMap[c] ELSE c
toLowerCase(s) == [i \in 1..Len(s) |-> LowerChar(s[i])]

\* the character at a position, "" past the end
At(s, i) == IF i >= 1 /\ i <= Len(s) THEN s[i] ELSE ""
\* s.slice(i - 1): the rest of s from position i
From(s, i) == IF i > Len(s) THEN <<>> ELSE SubSeq(s, i, Len(s))
\* lit occurs in s at position i (case-sensitive)
StartsAt(s, i, lit) ==
    /\ i >= 1
    /\ i + Len(lit) - 1 <= Len(s)
    /\ \A k \in 1..Len(lit) : s[i + k - 1] = lit[k]
\* String.prototype.includes
includes(s, lit) == \E i \in 1..(Len(s) + 1) : StartsAt(s, i, lit)

\* String.prototype.trim
trim(s) ==
    IF \A i \in 1..Len(s) : IsSpace(s[i]) THEN <<>>
    ELSE LET a == CHOOSE i \in 1..Len(s) :
                      ~IsSpace(s[i]) /\ \A k \in 1..(i - 1) : IsSpace(s[k])
             b == CHOOSE i \in 1..Len(s) :
                      ~IsSpace(s[i]) /\ \A k \in (i + 1)..Len(s) : IsSpace(s[k])
         IN SubSeq(s, a, b)

\* the end (exclusive) of the longest run of digits of s that starts at i
DigitRunEnd(s, i) ==
    CHOOSE j \in i..(Len(s) + 1) :
        /\ \A k \in i..(j - 1) : IsDigit(s[k])
        /\ ~IsDigit(At(s, j))

\* parseInt of a string of decimal digits
RECURSIVE parseInt(_)
parseInt(ds) ==
    IF ds = <<>> THEN 0
    ELSE 10 * parseInt(SubSeq(ds, 1, Len(ds) - 1)) + DigitVal(ds[Len(ds)])

\* Number.prototype.toString of a non-negative integer
RECURSIVE toString(_)
toString(n) ==
    IF n < 10 THEN <<Digits[n + 1]>>
    ELSE Append(toString(n \div 10), Digits[(n % 10) + 1])

\* s.replace(/\s+/g, rep): every run of white space becomes rep
RECURSIVE replaceSpaces(_, _)
replaceSpaces(s, rep) ==
    IF s = <<>> THEN <<>>
    ELSE IF IsSpace(s[1])
         THEN LET j == CHOOSE j \in 1..(Len(s) + 1) :
                           /\ \A k \in 1..(j - 1) : IsSpace(s[k])
                           /\ ~IsSpace(At(s, j))
              IN <<rep>> \o replaceSpaces(From(s, j), rep)
         ELSE <<s[1]>> \o replaceSpaces(Tail(s), rep)

\* a replace that removes nothing
keepParens(s) == s

\* s.replace(/\(.*?\)/g, ""): every "(" up to the nearest ")" is removed
RECURSIVE stripParens(_)
stripParens(s) ==
    IF s = <<>> THEN <<>>
    ELSE IF s[1] = "(" /\ \E j \in 2..Len(s) : s[j] = ")"
         THEN LET j == CHOOSE j \in 2..Len(s) :
                           s[j] = ")" /\ \A k \in 2..(j - 1) : s[k] # ")"
              IN stripParens(From(s, j + 1))
         ELSE <<s[1]>> \o stripParens(Tail(s))

\* s.split(" - ")
Delim == <<" ", "-", " ">>
RECURSIVE split(_)
split(s) ==
    IF \E i \in 1..Len(s) : StartsAt(s, i, Delim)
    THEN LET i == CHOOSE i \in 1..Len(s) :
                      StartsAt(s, i, Delim) /\ \A k \in 1..(i - 1) : ~StartsAt(s, k, Delim)
         IN <<SubSeq(s, 1, i - 1)>> \o split(From(s, i + Len(Delim)))
    ELSE <<s>>

\* a join that keeps the first part only
joinFirst(parts) == IF parts = <<>> THEN <<>> ELSE parts[1]

\* parts.join(" - ")
RECURSIVE join(_)
join(parts) ==
    IF parts = <<>> THEN <<>>
    ELSE IF Len(parts) = 1 THEN parts[1]
    ELSE parts[1] \o Delim \o join(Tail(parts))

\* array.filter(Boolean) on strings: the empty strings are dropped
RECURSIVE filterNonEmpty(_)
filterNonEmpty(parts) ==
    IF parts = <<>> THEN <<>>
    ELSE IF parts[1] = <<>> THEN filterNonEmpty(Tail(parts))
    ELSE <<parts[1]>> \o filterNonEmpty(Tail(parts))

\* JavaScript truthiness of an optional number and of an optional string
TruthyNum(n) == n # Undefined /\ n # 0
TruthyStr(s) == s # UndefStr /\ s # <<>>

\* ------------------------------------------------------------ title parser

\* /\((\d{4})\)/ : the positions of "(" followed by four digits and ")"
YearAt(s, i) ==
    /\ At(s, i) = "("
    /\ \A k \in 1..4 : IsDigit(At(s, i + k))
    /\ At(s, i + 5) = ")"

\* /S(\d+)[\s:]*E(\d+)/i at position i: S, digits, white space or colons, E, digits
SepRunEnd(s, i) ==
    CHOOSE j \in i..(Len(s) + 1) :
        /\ \A k \in i..(j - 1) : IsSpace(s[k]) \/ s[k] = ":"
        /\ ~(IsSpace(At(s, j)) \/ At(s, j) = ":")
SeasonEpisodeAt(s, i) ==
    /\ LowerChar(At(s, i)) = "s"
    /\ DigitRunEnd(s, i + 1) > i + 1
    /\ LET e == SepRunEnd(s, DigitRunEnd(s, i + 1))
       IN LowerChar(At(s, e)) = "e" /\ DigitRunEnd(s, e + 1) > e + 1

parseVideoTitle(videoTitle) ==
    LET s == videoTitle
        hasYear == \E i \in 1..Len(s) : YearAt(s, i)
        yi == CHOOSE i \in 1..Len(s) : YearAt(s, i) /\ \A k \in 1..(i - 1) : ~YearAt(s, k)
        seMatch == \E i \in 1..Len(s) : SeasonEpisodeAt(s, i)
        si == CHOOSE i \in 1..Len(s) :
                  SeasonEpisodeAt(s, i) /\ \A k \in 1..(i - 1) : ~SeasonEpisodeAt(s, k)
        sEnd == DigitRunEnd(s, si + 1)
        ei == SepRunEnd(s, sEnd)
        parts == filterNonEmpty([k \in 1..Len(split(s)) |-> trim(split(s)[k])])
        first == IF parts = <<>> THEN <<>> ELSE trim(stripParens(parts[1]))
        mainTitle == IF first # <<>> THEN first ELSE trim(s)
        episodeTitle ==
            IF seMatch /\ Len(parts) > 2
            THEN trim(stripParens(join(SubSeq(parts, 3, Len(parts)))))
            ELSE IF Len(parts) > 1
            THEN trim(stripParens(join(SubSeq(parts, 2, Len(parts)))))
            ELSE UndefStr
    IN [title |-> mainTitle,
        season |-> IF seMatch THEN parseInt(SubSeq(s, si + 1, sEnd - 1)) ELSE Undefined,
        episode |-> IF seMatch THEN parseInt(SubSeq(s, ei + 1, DigitRunEnd(s, ei + 1) - 1))
                    ELSE Undefined,
        episodeTitle |-> episodeTitle,
        year |-> IF hasYear THEN parseInt(SubSeq(s, yi + 1, yi + 4)) ELSE Undefined]

\* -------------------------------------------------------- variant generator

\* an add that does not look for the element
AppendAlways(seq, x) == Append(seq, x)

\* Set.prototype.add on an insertion-ordered set
SetAdd(seq, x) == IF \E i \in 1..Len(seq) : seq[i] = x THEN seq ELSE Append(seq, x)

\* add with the lowercased form inserted before the raw one
addLowerFirst(candidates, s) ==
    IF ~TruthyStr(s) THEN candidates
    ELSE LET base == trim(s)
             c1 == SetAdd(candidates, toLowerCase(base))
             c2 == SetAdd(c1, base)
             c3 == SetAdd(c2, replaceSpaces(base, "+"))
             c4 == SetAdd(c3, replaceSpaces(base, "."))
             c5 == SetAdd(c4, replaceSpaces(base, "_"))
         IN IF Len(base) > 1 THEN SetAdd(c5, SubSeq(base, 1, Len(base) - 1)) ELSE c5

\* the closure add of generateTitleVariants
add(candidates, s) ==
    IF ~TruthyStr(s) THEN candidates
    ELSE LET base == trim(s)
             c1 == SetAdd(candidates, base)
             c2 == SetAdd(c1, replaceSpaces(base, "+"))
             c3 == SetAdd(c2, replaceSpaces(base, "."))
             c4 == SetAdd(c3, replaceSpaces(base, "_"))
             c5 == SetAdd(c4, toLowerCase(base))
         IN IF Len(base) > 1 THEN SetAdd(c5, SubSeq(base, 1, Len(base) - 1)) ELSE c5

RECURSIVE addAll(_, _)
addAll(candidates, ss) ==
    IF ss = <<>> THEN candidates ELSE addAll(add(candidates, ss[1]), Tail(ss))

\* an AnimeMetadata value: {} has every field absent
EmptyMeta ==
    [english |-> UndefStr, romaji |-> UndefStr, native |-> UndefStr,
     hasSynonyms |-> FALSE, synonyms |-> <<>>, malId |-> Undefined]

generateTitleVariants(parsed, meta) ==
    addAll(add(add(add(add(<<>>, parsed.title), meta.english), meta.romaji), meta.native),
           meta.synonyms)


\* ------------------------------------------------------- candidate matcher

\* the positions after a match of 0*<lit> that starts at position i
AfterZerosLit(s, i, lit) ==
    {k + Len(lit) : k \in {k \in i..(Len(s) + 1) :
                              /\ StartsAt(s, k, lit)
                              /\ \A m \in i..(k - 1) : s[m] = "0"}}

\* a lookahead that passes anywhere
AnyAt(s, j) == TRUE

\* (?!\d) at position j
NoDigitAt(s, j) == ~IsDigit(At(s, j))

\* new RegExp(`S0*${season}E0*${episode}(?!\\d)`, "i").test(name)
testSeasonEpisode(name, season, episode) ==
    \E i \in 1..Len(name) :
        /\ LowerChar(name[i]) = "s"
        /\ \E j \in AfterZerosLit(name, i + 1, toString(season)) :
              /\ LowerChar(At(name, j)) = "e"
              /\ \E k \in AfterZerosLit(name, j + 1, toString(episode)) : NoDigitAt(name, k)

\* the positions after a match of (?:S\d+E)? that starts at position i
AfterOptSeasonPrefix(s, i) ==
    {i} \cup
    (IF /\ LowerChar(At(s, i)) = "s"
        /\ DigitRunEnd(s, i + 1) > i + 1
        /\ LowerChar(At(s, DigitRunEnd(s, i + 1))) = "e"
     THEN {DigitRunEnd(s, i + 1) + 1}
     ELSE {})

\* new RegExp(`(?:S\\d+E)?0*${epNum}(?!\\d)`, "i").test(name)
testEpisodeOnly(name, episode) ==
    \E i \in 1..(Len(name) + 1) :
        \E p \in AfterOptSeasonPrefix(name, i) :
            \E k \in AfterZerosLit(name, p, toString(episode)) : NoDigitAt(name, k)

\* the positions after a match of (?:S0*\d+)? and of (?:E0*)? that starts at i
AfterOptSeason(s, i) ==
    {i} \cup
    (IF LowerChar(At(s, i)) = "s"
     THEN {j \in (i + 2)..DigitRunEnd(s, i + 1) : TRUE}
     ELSE {})
AfterOptE(s, p) ==
    {p} \cup
    (IF LowerChar(At(s, p)) = "e"
     THEN {j \in (p + 1)..(Len(s) + 1) : \A m \in (p + 1)..(j - 1) : s[m] = "0"}
     ELSE {})

\* new RegExp(`(?:S0*\\d+)?(?:E0*)?${number}(?!\\d)`, "i").test(name)
testEpisodeNumber(name, number) ==
    \E s \in {name}, lit \in {toString(number)} :
        \E i \in 1..(Len(s) + 1) :
            \E p \in AfterOptSeason(s, i) :
                \E q \in AfterOptE(s, p) :
                    /\ StartsAt(s, q, lit)
                    /\ NoDigitAt(s, q + Len(lit))

\* Array.prototype.find as an index: the first that passes, 0 when none does
FirstIndex(hits) == IF hits = {} THEN 0 ELSE CHOOSE i \in hits : \A k \in hits : i <= k

\* rule 1: direct season + episode match
matchRule1(files, parsed) ==
    IF TruthyNum(parsed.season) /\ TruthyNum(parsed.episode)
    THEN FirstIndex({i \in 1..Len(files) :
                        testSeasonEpisode(files[i].name, parsed.season, parsed.episode)})
    ELSE 0

\* rule 2: episode-only match
matchRule2(files, parsed) ==
    IF ~TruthyNum(parsed.season) /\ TruthyNum(parsed.episode)
    THEN FirstIndex({i \in 1..Len(files) : testEpisodeOnly(files[i].name, parsed.episode)})
    ELSE 0

\* rule 3 is entered: an episode title and a MAL id are both there
needsEpisodes(parsed, meta) == TruthyStr(parsed.episodeTitle) /\ TruthyNum(meta.malId)

\* rule 3: episode title match via the MAL episode list
matchRule3(files, parsed, episodes) ==
    LET metaMatch == FirstIndex({i \in 1..Len(episodes) :
                                    /\ episodes[i].title # UndefStr
                                    /\ includes(toLowerCase(episodes[i].title),
                                                toLowerCase(parsed.episodeTitle))})
    IN FirstIndex({i \in 1..Len(files) :
                      \E m \in {metaMatch} \ {0} :
                          testEpisodeNumber(files[i].name, episodes[m].number)})

\* rule 4: the top hit of the fuzzy search, looked up among the files
matchRule4(files, best) ==
    IF best = UndefStr THEN 0
    ELSE FirstIndex({i \in 1..Len(files) : toLowerCase(files[i].name) = best})

\* what searcher.search(...)[0] may be: a candidate, or nothing
FuzzyOutcomes(files) == {UndefStr} \cup {toLowerCase(files[i].name) : i \in 1..Len(files)}

\* matchSubtitleFile before its await: rules 1 and 2 on a list that is not empty;
\* index 0 when neither finds a file
matchEarly(files, parsed) ==
    LET r1 == matchRule1(files, parsed)
        r2 == IF r1 # 0 THEN 0 ELSE matchRule2(files, parsed)
    IN IF r1 # 0 THEN [idx |-> r1, rule |-> 1]
       ELSE IF r2 # 0 THEN [idx |-> r2, rule |-> 2]
       ELSE [idx |-> 0, rule |-> 0]

\* a matcher that asks for the episode list whatever rules 1 and 2 found
awaitsEpisodesEager(files, parsed, meta) == files # <<>> /\ needsEpisodes(parsed, meta)

\* matchSubtitleFile reaches await getAllEpisodesMAL
awaitsEpisodes(files, parsed, meta) ==
    /\ files # <<>>
    /\ needsEpisodes(parsed, meta)
    /\ matchEarly(files, parsed).idx = 0

\* matchSubtitleFile once rules 1 and 2 found no file: rules 3, 4 and 5
matchLate(files, parsed, meta, episodes, best) ==
    LET r3 == IF needsEpisodes(parsed, meta) THEN matchRule3(files, parsed, episodes) ELSE 0
        r4 == IF r3 # 0 THEN 0 ELSE matchRule4(files, best)
    IN IF r3 # 0 THEN [idx |-> r3, rule |-> 3]
       ELSE IF r4 # 0 THEN [idx |-> r4, rule |-> 4]
       ELSE [idx |-> 1, rule |-> 5]

\* matchSubtitleFile: the index of the file returned (0 for null) and the rule
\* that decided (0 for an empty list)
matchSubtitleFile(files, parsed, meta, episodes, best) ==
    LET early == matchEarly(files, parsed)
    IN IF Len(files) = 0 THEN [idx |-> 0, rule |-> 0]
       ELSE IF early.idx # 0 THEN early
       ELSE matchLate(files, parsed, meta, episodes, best)

\* ------------------------------------------------------------------- state

DEBOUNCE_MS == 1000
MaxDepth == 4

\* the messages that arrive and the clock ticks of the concurrency specification,
\* those of the pipeline specification, and the length of a tick in ms
MaxReq == 3
MaxTicks == 2
MaxReqPipe == 2
MaxTicksPipe == 1
TickMs == 500

VARIABLES
    world,           \* the remote providers and the messages that may arrive
    now,             \* Date.now()
    lastRequest,     \* the debounce record {title, timestamp}
    activeSearches,  \* tab id -> the request whose context is registered, 0 for none
    visitedDirs,     \* the module-level set of visited directory keys
    nreq,            \* the messages received so far; message r is the r-th
    req,             \* per message: the position and the locals of its handler
    mIn, mPc, mOut,  \* one application of matchSubtitleFile to given arguments
    tIn, tPc, tOut,  \* one application of parseVideoTitle and generateTitleVariants
    content          \* per tab: the content script's cues, its file-name label and
                     \* the searches whose response it has handled

vars ==
    <<world, now, lastRequest, activeSearches, visitedDirs, nreq, req, mIn, mPc, mOut,
      tIn, tPc, tOut, content>>
matcherVars == <<mIn, mPc, mOut>>
titleVars == <<tIn, tPc, tOut>>
workerVars == <<world, now, lastRequest, activeSearches, visitedDirs, nreq, req>>

Reqs == 1..(IF MaxReq > MaxReqPipe THEN MaxReq ELSE MaxReqPipe)

\* a response {text, fileName}; Null is fileName null, NoResult is no value yet;
\* the text of NoRecord stands for "Kuraji -\u300c\u30af\u30e9\u30b8\u300d"
Null == <<"<null>">>
Sentinel == [text |-> "", fileName |-> Null]
NoRecord == [text |-> "Kuraji", fileName |-> Null]
NoResult == [text |-> "<none>", fileName |-> UndefStr]
ErrorBody == "404: Not Found"

NoParsed ==
    [title |-> <<>>, season |-> Undefined, episode |-> Undefined,
     episodeTitle |-> UndefStr, year |-> Undefined]
NoFile == [name |-> UndefStr, url |-> UndefStr]

IdleReq ==
    [pc |-> "idle", type |-> "", tab |-> 0, title |-> <<>>, arrivedAt |-> 0,
     accepted |-> FALSE, cancelled |-> FALSE,
     parsed |-> NoParsed, meta |-> EmptyMeta, variants |-> <<>>, vi |-> 0,
     stack |-> <<>>, files |-> <<>>, match |-> NoFile, ok |-> TRUE,
     page |-> 0, episodes |-> <<>>,
     result |-> NoResult, threw |-> FALSE, resp |-> NoResult, nresp |-> 0,
     \* history, read by no step of the program
     kind |-> "", superseded |-> FALSE, supersedes |-> FALSE, metaEmpty |-> FALSE,
     probes |-> <<>>, listed |-> <<>>, nMeta |-> 0, nEp |-> 0, nFile |-> 0, rule |-> 0]

\* a request is in flight from its acceptance to its response
InFlight(rq) == rq.accepted /\ rq.pc # "done"

\* --------------------------------------------------------- message handler

\* a debounce test whose window is one tick long
debouncedShort(lr, title, t) == title = lr.title /\ t - lr.timestamp < TickMs

\* a window that still holds when exactly DEBOUNCE_MS have elapsed
debouncedInclusive(lr, title, t) == title = lr.title /\ t - lr.timestamp <= DEBOUNCE_MS

\* handleMessage: the debounce test
debounced(lr, title, t) == title = lr.title /\ t - lr.timestamp < DEBOUNCE_MS

\* a handler that cancels no context
cancelNone(rqs, prev) == rqs

\* handleMessage: the context registered for the tab, if any, is cancelled
cancelPrev(rqs, prev) == IF prev # 0 THEN [rqs EXCEPT ![prev].cancelled = TRUE] ELSE rqs

\* a handler that returns the sentinel whatever fetchSubtitle returned
finalResultEmpty(rq) == Sentinel

\* handleMessage after fetchSubtitle returned: what it returns
finalResult(rq) == IF rq.cancelled THEN Sentinel ELSE rq.result

\* a handler that removes the tab's entry even when its own context was cancelled
finalSearchesAlways(act, rq) == [act EXCEPT ![rq.tab] = 0]

\* handleMessage after fetchSubtitle returned: the session map
finalSearches(act, rq) == IF rq.cancelled THEN act ELSE [act EXCEPT ![rq.tab] = 0]

\* a catch block that sends nothing
caughtSilently(rq) == [rq EXCEPT !.pc = "done"]

\* the listener's catch block: what is sent when handleMessage threw
caught(rq) == [rq EXCEPT !.pc = "done", !.resp = Sentinel, !.nresp = @ + 1]

\* the listener: the response to a message whose handler settled
respond(rq) ==
    IF rq.threw THEN caught(rq)
    ELSE [rq EXCEPT !.pc = "done", !.resp = finalResult(rq), !.nresp = @ + 1]

\* the locals of a handler that ended are gone
Ended(rq) ==
    [rq EXCEPT !.parsed = NoParsed, !.meta = EmptyMeta, !.vi = 0, !.stack = <<>>,
               !.files = <<>>, !.match = NoFile, !.ok = TRUE, !.page = 0,
               !.episodes = <<>>]

\* ---------------------------------------------------------------- pipeline

\* fetchSubtitle returns a value, or throws: the request waits in "return" for the
\* rest of handleMessage, which runs in the same turn of the event loop
Return(st, value, kind) ==
    [st EXCEPT !.rq.pc = "return", !.rq.result = value, !.rq.kind = kind]
Throw(st) ==
    [st EXCEPT !.rq.pc = "return", !.rq.threw = TRUE, !.rq.kind = "threw"]

\* the content script of a tab before any response: no cues, the label the menu
\* is created with
NoSubtitlesFound == <<"No subtitles found">>
NoMenu ==
    [subtitles |-> "", fileName |-> <<"Searching for subtitles, please wait...">>,
     \* history, read by no step of the program
     handled |-> {}, loadedBy |-> 0]

\* sanitizeFileName: the name is decoded (a name with a stray "%" makes the
\* decoder throw and is returned as it is; no name of the providers holds an
\* escape), trimmed, its brackets become parentheses and its control characters
\* are dropped
sanitizeFileName(rawName) ==
    IF includes(rawName, <<"%">>) THEN rawName
    ELSE LET t == trim(rawName)
             round == [i \in 1..Len(t) |-> IF t[i] = "[" THEN "(" ELSE IF t[i] = "]" THEN ")" ELSE t[i]]
         IN SelectSeq(round, LAMBDA c : c \notin {"\t", "\n", "\r"})

\* the search callback of the content script after its message was answered with
\* res: an empty text sets the label and returns; else the text is parsed into
\* the cues (kept as the text they are parsed from) and the label names the file
searchAnswered(menu, r, res) ==
    IF res.text = "" THEN [menu EXCEPT !.fileName = NoSubtitlesFound, !.handled = @ \cup {r}]
    ELSE LET shown == sanitizeFileName(IF res.fileName \in {Null, <<>>} THEN NoSubtitlesFound
                                       ELSE res.fileName)
         IN [subtitles |-> res.text,
             fileName |-> IF shown = <<>> THEN NoSubtitlesFound ELSE shown,
             handled |-> menu.handled \cup {r}, loadedBy |-> r]

\* a test that finds a record in any metadata
hasAnyEntry(meta) == TRUE

\* fetchSubtitle: is there a canonical record
hasAniListEntry(meta) ==
    \/ TruthyStr(meta.english)
    \/ TruthyStr(meta.romaji)
    \/ TruthyStr(meta.native)
    \/ (meta.hasSynonyms /\ Len(meta.synonyms) > 0)

\* a guard that lets the crawl go one level deeper
crawlSkipsDeeper(dir, depth, vis) == depth > MaxDepth + 1 \/ dir \in vis

\* fetchGitHubSubtitlesSafe: the guard that returns [] at once
crawlSkips(dir, depth, vis) == depth > MaxDepth \/ dir \in vis

Frame(dir, depth) == [dir |-> dir, depth |-> depth, items |-> <<>>, files |-> <<>>]

\* item.name.split(".").pop()?.toLowerCase()
extension(name) ==
    LET dots == {i \in 1..Len(name) : name[i] = "."}
        last == IF dots = {} THEN 0 ELSE CHOOSE i \in dots : \A k \in dots : k <= i
    IN toLowerCase(From(name, last + 1))

\* item.path.replace(/^subtitles\//, "")
SubtitlesPrefix == <<"s", "u", "b", "t", "i", "t", "l", "e", "s", "/">>
\* a path that keeps its prefix
relativePathWhole(path) == path
relativePath(path) ==
    IF StartsAt(path, 1, SubtitlesPrefix) THEN From(path, Len(SubtitlesPrefix) + 1) ELSE path

RECURSIVE ProbeFrom(_, _, _), CrawlReturned(_, _, _), FrameReturn(_, _, _), ItemLoop(_, _)
RECURSIVE ItemLoopAllAtOnce(_, _)

\* fetchSubtitle: a file was matched, its content is fetched
Matched(st, m, best) ==
    IF m.idx = 0 THEN ProbeFrom(st, st.rq.vi + 1, best)
    ELSE [st EXCEPT !.rq.match = st.rq.files[m.idx], !.rq.rule = m.rule,
                    !.rq.pc = "file_fetch", !.rq.nFile = @ + 1]

\* matchSubtitleFile up to its first await, on a list that is not empty: rules 1
\* and 2, then either the episode list is awaited or rules 4 and 5 decide
MatchCall(st, best) ==
    LET rq == st.rq
        top == IF best \in FuzzyOutcomes(rq.files) THEN best ELSE UndefStr
    IN IF awaitsEpisodes(rq.files, rq.parsed, rq.meta)
       THEN [st EXCEPT !.rq.pc = "ep_fetch", !.rq.page = 1, !.rq.episodes = <<>>,
                       !.rq.nEp = @ + 1]
       ELSE Matched(st, matchSubtitleFile(rq.files, rq.parsed, rq.meta, <<>>, top), best)

\* matchSubtitleFile after getAllEpisodesMAL returned: rules 3, 4 and 5 (the state
\* it resumes from is a value, bound once as st)
MatchResume(st0, best) ==
    CHOOSE next \in {
            LET rq == st.rq
                top == IF best \in FuzzyOutcomes(rq.files) THEN best ELSE UndefStr
            IN Matched(st, matchLate(rq.files, rq.parsed, rq.meta, rq.episodes, top), best)
        : st \in {st0}} : TRUE

\* fetchSubtitle: the loop over the variants, from variant i on
ProbeFrom(st, i, best) ==
    LET rq == st.rq
    IN IF i > Len(rq.variants) THEN Return(st, Sentinel, "exhausted")
       ELSE IF rq.cancelled THEN Return(st, Sentinel, "cancelled")
       ELSE IF crawlSkips(rq.variants[i], 0, st.vis)
       THEN CrawlReturned([st EXCEPT !.rq.vi = i], <<>>, best)
       ELSE [rq |-> [rq EXCEPT !.vi = i, !.stack = <<Frame(rq.variants[i], 0)>>,
                               !.pc = "token"],
             vis |-> st.vis \cup {rq.variants[i]}]

\* a loop that gives up at the first variant whose crawl returned no file
CrawlReturnedGivingUp(st, files, best) ==
    LET rq == st.rq
        st1 == [st EXCEPT !.rq.stack = <<>>, !.rq.files = files,
                          !.rq.probes = Append(@, [variant |-> rq.variants[rq.vi],
                                                   files |-> files])]
    IN IF Len(files) = 0 THEN Return(st1, Sentinel, "exhausted") ELSE MatchCall(st1, best)

\* fetchSubtitle: the crawl of variant vi returned files
CrawlReturned(st, files, best) ==
    LET rq == st.rq
        st1 == [st EXCEPT !.rq.stack = <<>>, !.rq.files = files,
                          !.rq.probes = Append(@, [variant |-> rq.variants[rq.vi],
                                                   files |-> files])]
    IN IF Len(files) = 0 THEN ProbeFrom(st1, rq.vi + 1, best) ELSE MatchCall(st1, best)

\* fetchGitHubSubtitlesSafe returns files: to the item loop of its caller, or to
\* fetchSubtitle
FrameReturn(st, files, best) ==
    LET stack == st.rq.stack
        n == Len(stack)
    IN IF n = 1 THEN CrawlReturned(st, files, best)
       ELSE ItemLoop([st EXCEPT !.rq.stack =
                          [SubSeq(stack, 1, n - 1) EXCEPT ![n - 1].files = @ \o files]],
                     best)

\* a crawler that asks for the listings of all the subdirectories of a listing at
\* once, when it meets the first of them
ItemLoopAllAtOnce(st0, best) ==
    CHOOSE next \in {
            LET stack == st.rq.stack
                n == Len(stack)
                top == stack[n]
                item == top.items[1]
                rest == [st EXCEPT !.rq.stack[n].items = Tail(@)]
                sub == relativePath(item.path)
                dirs == SelectSeq(top.items, LAMBDA e : e.type = "dir")
                asked == [j \in 1..Len(dirs) |->
                             [dir |-> relativePath(dirs[j].path), depth |-> top.depth + 1]]
            IN IF top.items = <<>> THEN FrameReturn(st, top.files, best)
               ELSE IF item.type = "file"
               THEN IF extension(item.name) = <<"s", "r", "t">>
                    THEN ItemLoopAllAtOnce([rest EXCEPT !.rq.stack[n].files =
                                       Append(@, [name |-> item.name, url |-> item.url])], best)
                    ELSE ItemLoopAllAtOnce(rest, best)
               ELSE IF item.type = "dir"
               THEN IF crawlSkips(sub, top.depth + 1, st.vis)
                    THEN ItemLoopAllAtOnce(rest, best)
                    ELSE [rq |-> [rest.rq EXCEPT !.stack = Append(@, Frame(sub, top.depth + 1)),
                                                 !.pc = "token", !.listed = @ \o asked],
                          vis |-> st.vis \cup {sub}]
               ELSE ItemLoopAllAtOnce(rest, best)
        : st \in {st0}} : TRUE

\* fetchGitHubSubtitlesSafe: the loop over the entries of the listing (the state
\* the loop starts from is a value, bound once as st)
ItemLoop(st0, best) ==
    CHOOSE next \in {
            LET stack == st.rq.stack
                n == Len(stack)
                top == stack[n]
                item == top.items[1]
                rest == [st EXCEPT !.rq.stack[n].items = Tail(@)]
                sub == relativePath(item.path)
            IN IF top.items = <<>> THEN FrameReturn(st, top.files, best)
               ELSE IF item.type = "file"
               THEN IF extension(item.name) = <<"s", "r", "t">>
                    THEN ItemLoop([rest EXCEPT !.rq.stack[n].files =
                                       Append(@, [name |-> item.name, url |-> item.url])], best)
                    ELSE ItemLoop(rest, best)
               ELSE IF item.type = "dir"
               THEN IF crawlSkips(sub, top.depth + 1, st.vis)
                    THEN ItemLoop(rest, best)
                    ELSE [rq |-> [rest.rq EXCEPT !.stack = Append(@, Frame(sub, top.depth + 1)),
                                                 !.pc = "token"],
                          vis |-> st.vis \cup {sub}]
               ELSE ItemLoop(rest, best)
        : st \in {st0}} : TRUE

\* fetchSubtitle after lookupAnimeMetadata returned meta
AfterMeta(st, meta) ==
    LET empty == /\ ~TruthyStr(meta.english) /\ ~TruthyStr(meta.romaji)
                 /\ ~TruthyStr(meta.native) /\ Len(meta.synonyms) = 0
        st1 == [st EXCEPT !.rq.meta = meta, !.rq.metaEmpty = empty]
    IN IF ~hasAniListEntry(meta) THEN Return(st1, NoRecord, "norecord")
       ELSE ProbeFrom([st1 EXCEPT !.rq.variants = generateTitleVariants(st.rq.parsed, meta)],
                      1, UndefStr)

\* ----------------------------------------------------------------- actions

St(r) == [rq |-> req[r], vis |-> visitedDirs]

\* the step ends: the request waits at its next await, or fetchSubtitle settled and
\* the rest of handleMessage and the listener run to the response
Commit(r, st0) ==
    \E st \in {st0} :
        /\ visitedDirs' = st.vis
        /\ IF st.rq.pc = "return"
           THEN /\ req' = [req EXCEPT ![r] = Ended(respond(st.rq))]
                /\ activeSearches' = IF st.rq.threw THEN activeSearches
                                     ELSE finalSearches(activeSearches, st.rq)
           ELSE /\ req' = [req EXCEPT ![r] = st.rq]
                /\ UNCHANGED activeSearches
        /\ UNCHANGED <<world, now, lastRequest, nreq, matcherVars, titleVars, content>>

\* Date.now() advances
Tick ==
    /\ nreq < world.maxReq
    /\ now < DEBOUNCE_MS + world.maxTicks * TickMs
    /\ now' = now + TickMs
    /\ UNCHANGED <<world, lastRequest, activeSearches, visitedDirs, nreq, req, matcherVars, titleVars, content>>

\* a message that is no GET_SUBS: answered at once, before the tab id is read
ReceiveOther(type) ==
    /\ nreq < world.maxReq
    /\ nreq' = nreq + 1
    /\ req' = [req EXCEPT ![nreq + 1] =
                  [IdleReq EXCEPT !.pc = "done", !.type = type,
                                  !.arrivedAt = now, !.kind = "other",
                                  !.resp = Sentinel, !.nresp = 1]]
    /\ UNCHANGED <<world, now, lastRequest, activeSearches, visitedDirs, matcherVars, titleVars, content>>

\* a debounced message that restarts the debounce window
DebounceRefresh(tab, title) ==
    /\ nreq < world.maxReq
    /\ debounced(lastRequest, title, now)
    /\ nreq' = nreq + 1
    /\ lastRequest' = [title |-> title, timestamp |-> now]
    /\ req' = [req EXCEPT ![nreq + 1] =
                  [IdleReq EXCEPT !.pc = "done", !.type = "GET_SUBS", !.tab = tab,
                                  !.title = title, !.arrivedAt = now,
                                  !.kind = "debounced", !.resp = Sentinel, !.nresp = 1]]
    /\ UNCHANGED <<world, now, activeSearches, visitedDirs, matcherVars, titleVars, content>>

\* a GET_SUBS message inside the debounce window: answered at once
Debounce(tab, title) ==
    /\ nreq < world.maxReq
    /\ debounced(lastRequest, title, now)
    /\ nreq' = nreq + 1
    /\ req' = [req EXCEPT ![nreq + 1] =
                  [IdleReq EXCEPT !.pc = "done", !.type = "GET_SUBS", !.tab = tab,
                                  !.title = title, !.arrivedAt = now,
                                  !.kind = "debounced", !.resp = Sentinel, !.nresp = 1]]
    /\ UNCHANGED <<world, now, lastRequest, activeSearches, visitedDirs, matcherVars, titleVars, content>>

\* a GET_SUBS message that is accepted: handleMessage and fetchSubtitle up to the
\* request to the metadata provider
Accept(tab, title) ==
    LET r == nreq + 1
        stale == {a \in Reqs : InFlight(req[a]) /\ req[a].tab = tab}
        marked == [a \in Reqs |-> IF a \in stale THEN [req[a] EXCEPT !.superseded = TRUE]
                                  ELSE req[a]]
    IN /\ nreq < world.maxReq
       /\ ~debounced(lastRequest, title, now)
       /\ nreq' = r
       /\ lastRequest' = [title |-> title, timestamp |-> now]
       /\ activeSearches' = [activeSearches EXCEPT ![tab] = r]
       /\ visitedDirs' = {}
       /\ req' = [cancelPrev(marked, activeSearches[tab]) EXCEPT ![r] =
                     [IdleReq EXCEPT !.pc = "meta_fetch", !.type = "GET_SUBS", !.tab = tab,
                                     !.title = title, !.arrivedAt = now, !.accepted = TRUE,
                                     !.supersedes = stale # {},
                                     !.parsed = parseVideoTitle(title), !.nMeta = 1]]
       /\ UNCHANGED <<world, now, matcherVars, titleVars, content>>

\* lookupAnimeMetadata: the provider's response arrives
MetaFetchDone(r) ==
    /\ req[r].pc = "meta_fetch"
    /\ \E outcome \in {"ok"} \cup ({"meta_reject", "meta_notok"} \cap world.faults) :
          Commit(r, IF outcome = "meta_reject" THEN Throw(St(r))
                    ELSE IF outcome = "meta_notok" THEN AfterMeta(St(r), EmptyMeta)
                    ELSE [St(r) EXCEPT !.rq.pc = "meta_json"])

\* the records the metadata provider may answer a search with
MediaFor(title) == IF title \in DOMAIN world.metas THEN world.metas[title] ELSE {}

\* lookupAnimeMetadata: the body is read; it is malformed, or has no Media, or a
\* Media without a title object, or is one of the provider's records
MetaJsonDone(r) ==
    /\ req[r].pc = "meta_json"
    /\ \/ \E outcome \in (IF MediaFor(req[r].parsed.title) = {} THEN {"nomedia"} ELSE {})
                          \cup ({"meta_badjson", "meta_notitle", "nomedia"} \cap world.faults) :
             Commit(r, IF outcome = "nomedia" THEN AfterMeta(St(r), EmptyMeta)
                       ELSE Throw(St(r)))
       \/ \E media \in MediaFor(req[r].parsed.title) :
             Commit(r, AfterMeta(St(r),
                        [media EXCEPT !.hasSynonyms = TRUE,
                                      !.synonyms = IF media.hasSynonyms THEN @ ELSE <<>>]))

\* fetchGitHubSubtitlesSafe: the token was read (or not), the listing is requested
TokenDone(r) ==
    /\ req[r].pc = "token"
    /\ LET top == req[r].stack[Len(req[r].stack)]
       IN Commit(r, [St(r) EXCEPT !.rq.pc = "list_fetch",
                                  !.rq.listed = Append(@, [dir |-> top.dir,
                                                           depth |-> top.depth])])

\* fetchGitHubSubtitlesSafe: the listing's response arrives; a directory the
\* repository does not hold is answered 404
ListFetchDone(r) ==
    /\ req[r].pc = "list_fetch"
    /\ LET top == req[r].stack[Len(req[r].stack)]
       IN \E outcome \in (IF top.dir \in DOMAIN world.repo THEN {"ok"} ELSE {"list_notok"})
                         \cup ({"list_reject", "list_notok"} \cap world.faults) :
             Commit(r, IF outcome = "list_reject" THEN Throw(St(r))
                       ELSE IF outcome = "list_notok"
                       THEN [St(r) EXCEPT !.rq.pc = "err_json"]
                       ELSE [St(r) EXCEPT !.rq.pc = "list_json"])

\* a crawler that asks again for a listing that failed
ErrJsonRetry(r) ==
    /\ req[r].pc = "err_json"
    /\ Commit(r, [St(r) EXCEPT !.rq.pc = "list_fetch"])

\* fetchGitHubSubtitlesSafe: the body of a failed listing was read as JSON and
\* logged; when that fails, res.text() on the consumed body rejects and nothing
\* catches it
ErrJsonDone(r) ==
    /\ req[r].pc = "err_json"
    /\ \E outcome \in {"ok"} \cup ({"err_badjson"} \cap world.faults), best \in world.fuzzy :
          Commit(r, IF outcome = "ok" THEN FrameReturn(St(r), <<>>, best)
                    ELSE Throw(St(r)))

\* fetchGitHubSubtitlesSafe: the listing was read; its entries are classified and
\* the first subdirectory not skipped is entered
ListJsonDone(r) ==
    /\ req[r].pc = "list_json"
    /\ LET n == Len(req[r].stack)
           dir == req[r].stack[n].dir
       IN \E outcome \in {"ok"} \cup ({"list_badjson"} \cap world.faults),
             best \in world.fuzzy :
             Commit(r, IF outcome = "ok"
                       THEN ItemLoop([St(r) EXCEPT !.rq.stack[n].items = world.repo[dir]],
                                     best)
                       ELSE Throw(St(r)))

\* the content script: the response to the search message r arrives and the
\* callback resumes
ResponseArrives(r) ==
    /\ req[r].pc = "done" /\ req[r].type = "GET_SUBS" /\ req[r].nresp > 0
    /\ r \notin content[req[r].tab].handled
    /\ content' = [content EXCEPT ![req[r].tab] = searchAnswered(@, r, req[r].resp)]
    /\ UNCHANGED <<workerVars, matcherVars, titleVars>>

\* getAllEpisodesMAL: the response to a page request arrives
EpFetchDone(r) ==
    /\ req[r].pc = "ep_fetch"
    /\ \E outcome \in {"ok"} \cup ({"ep_reject"} \cap world.faults) :
          Commit(r, IF outcome = "ep_reject" THEN Throw(St(r))
                    ELSE [St(r) EXCEPT !.rq.pc = "ep_json"])

\* the page the episode-list provider serves
PageOf(pages, p) == IF p <= Len(pages) THEN pages[p] ELSE [data |-> <<>>, hasNext |-> FALSE]

\* a resolver that stops after the page it has read, whatever the flag says
EpJsonDoneOnePage(r) ==
    /\ req[r].pc = "ep_json"
    /\ \E best \in world.fuzzy :
          Commit(r, MatchResume([St(r) EXCEPT !.rq.episodes =
                                     @ \o PageOf(world.pages, req[r].page).data], best))

\* getAllEpisodesMAL: the page was read; a body that is no JSON or has no data
\* array throws, else the entries are appended and the next page is requested
EpJsonDone(r) ==
    /\ req[r].pc = "ep_json"
    /\ \E outcome \in {"page"} \cup ({"ep_badjson", "ep_nodata"} \cap world.faults),
          best \in world.fuzzy :
          LET page == PageOf(world.pages, req[r].page)
              st1 == [St(r) EXCEPT !.rq.episodes = @ \o page.data]
          IN Commit(r, IF outcome # "page" THEN Throw(St(r))
                       ELSE IF page.hasNext
                       THEN [st1 EXCEPT !.rq.page = @ + 1, !.rq.pc = "ep_fetch",
                                        !.rq.nEp = @ + 1]
                       ELSE MatchResume(st1, best))

\* fetchSubtitleFile: the response arrives; res.ok is logged, the body is read
FileFetchDone(r) ==
    /\ req[r].pc = "file_fetch"
    /\ \E outcome \in {"ok"} \cup ({"file_reject", "file_notok"} \cap world.faults) :
          Commit(r, IF outcome = "file_reject" THEN Throw(St(r))
                    ELSE [St(r) EXCEPT !.rq.pc = "file_text", !.rq.ok = (outcome = "ok")])

\* fetchSubtitleFile: res.text() settles; fetchSubtitle returns {text, fileName}
FileTextDone(r) ==
    /\ req[r].pc = "file_text"
    /\ \/ "text_reject" \in world.faults /\ Commit(r, Throw(St(r)))
       \/ \E text \in (IF req[r].ok THEN world.bodies ELSE {ErrorBody}) :
             Commit(r, Return(St(r), [text |-> text, fileName |-> req[r].match.name],
                              "match"))


\* ------------------------------------------------------------ specification

\* a listing entry of the content repository
Entry(type, name, path, url) == [type |-> type, name |-> name, path |-> path, url |-> url]

AllFaults ==
    {"meta_reject", "meta_notok", "meta_badjson", "meta_notitle", "nomedia",
     "list_reject", "list_notok", "err_badjson", "list_badjson",
     "ep_reject", "ep_badjson", "ep_nodata", "file_reject", "file_notok", "text_reject"}

TitleAk == <<"A", " ", "-", " ", "k">>
TitleB == <<"B">>
MediaA == [EmptyMeta EXCEPT !.english = <<"A">>, !.malId = 7]
MediaB == [EmptyMeta EXCEPT !.romaji = <<"B">>, !.hasSynonyms = TRUE, !.synonyms = <<<<"c">>>>]
MediaNone == [EmptyMeta EXCEPT !.hasSynonyms = TRUE]
File1 == Entry("file", <<"1", ".", "s", "r", "t">>, <<"s", "u", "b", "t", "i", "t", "l", "e", "s", "/", "A", "/", "1", ".", "s", "r", "t">>, <<"r", "a", "w", "/", "A", "/", "1", ".", "s", "r", "t">>)
File2 == Entry("file", <<"2", ".", "s", "r", "t">>, <<"s", "u", "b", "t", "i", "t", "l", "e", "s", "/", "A", "/", "s", "/", "2", ".", "s", "r", "t">>, <<"r", "a", "w", "/", "A", "/", "s", "/", "2", ".", "s", "r", "t">>)
FileY == Entry("file", <<"y", ".", "a", "s", "s">>, <<"s", "u", "b", "t", "i", "t", "l", "e", "s", "/", "A", "/", "s", "/", "y", ".", "a", "s", "s">>, <<"r", "a", "w", "/", "A", "/", "s", "/", "y", ".", "a", "s", "s">>)
FileZ == Entry("file", <<"z", ".", "S", "R", "T">>, <<"s", "u", "b", "t", "i", "t", "l", "e", "s", "/", "b", "/", "z", ".", "S", "R", "T">>, <<"r", "a", "w", "/", "b", "/", "z", ".", "S", "R", "T">>)
DirAs == Entry("dir", <<"s">>, <<"s", "u", "b", "t", "i", "t", "l", "e", "s", "/", "A", "/", "s">>, Null)
DirA == Entry("dir", <<"A">>, <<"s", "u", "b", "t", "i", "t", "l", "e", "s", "/", "A">>, Null)
Page1 == [data |-> <<[number |-> 1, title |-> <<"K">>]>>, hasNext |-> FALSE]

\* The providers of the concurrency specification, which answer without fault:
\* title "A - k" has a metadata record with a MAL id, title "B" has none;
\* directory A holds a file and a subdirectory whose listing is answered 404;
\* the episode list is one page.
SmallWorld ==
    [titles |-> {TitleAk, TitleB},
     tabs |-> {0, 1},
     types |-> {"LOG_DEBUG", "OTHER"},
     metas |-> (<<"A">> :> {MediaA}),
     repo |-> (<<"A">> :> <<File1, DirAs>>),
     pages |-> <<Page1>>,
     bodies |-> {"SRT"},
     fuzzy |-> {UndefStr, <<"1", ".", "s", "r", "t">>},
     faults |-> {},
     maxReq |-> MaxReq,
     maxTicks |-> MaxTicks]

\* The providers of the pipeline specification, where every call may fail: the
\* titles "A - k", "B" and "A - S0E1" (an episode number that file 1.srt carries)
\* have metadata records, and "A" also one without any title; directory A
\* holds a file and a subdirectory A/s that holds an .ass file, an .srt file and a
\* link back to A; directory B is missing and directory b holds one file.
PipeWorld ==
    [titles |-> {TitleAk, TitleB, <<"A", " ", "-", " ", "S", "0", "E", "1">>},
     tabs |-> {0, 1},
     types |-> {"LOG_DEBUG", "OTHER"},
     metas |-> (<<"A">> :> {MediaA, MediaNone} @@ <<"B">> :> {MediaB}),
     repo |-> (<<"A">> :> <<File1, DirAs>> @@ <<"A", "/", "s">> :> <<FileY, File2, DirA>>
               @@ <<"b">> :> <<FileZ>>),
     pages |-> <<Page1>>,
     bodies |-> {"SRT", ""},
     fuzzy |-> {UndefStr, <<"1", ".", "s", "r", "t">>, <<"2", ".", "s", "r", "t">>, <<"z", ".", "S", "R", "T">>},
     faults |-> AllFaults,
     maxReq |-> MaxReqPipe,
     maxTicks |-> MaxTicksPipe]

NoTitleInput ==
    [form |-> "", title |-> <<>>, main |-> <<>>, year |-> <<>>, season |-> <<>>,
     episode |-> <<>>, rest |-> <<>>]
NoTitleOutput == [parsed |-> NoParsed, again |-> NoParsed, meta |-> EmptyMeta, variants |-> <<>>]
NoMatcherInput == [files |-> <<>>, parsed |-> NoParsed, meta |-> EmptyMeta]
NoMatcherOutput == [idx |-> 0, rule |-> 0, threw |-> FALSE, episodes |-> <<>>]

\* the worker after its module was loaded, with providers w; the clock is past
\* the epoch by at least the debounce window
InitWith(w) ==
    /\ world = w
    /\ now = DEBOUNCE_MS
    /\ lastRequest = [title |-> <<>>, timestamp |-> 0]
    /\ activeSearches = [t \in w.tabs |-> 0]
    /\ visitedDirs = {}
    /\ nreq = 0
    /\ req = [r \in Reqs |-> IdleReq]
    /\ mIn = NoMatcherInput
    /\ mPc = "off"
    /\ mOut = NoMatcherOutput
    /\ tIn = NoTitleInput
    /\ tPc = "off"
    /\ tOut = NoTitleOutput
    /\ content = [t \in w.tabs |-> NoMenu]

Init == InitWith(SmallWorld)
InitPipe == InitWith(PipeWorld)

Next ==
    \/ Tick
    \/ \E type \in world.types : ReceiveOther(type)
    \/ \E tab \in world.tabs, title \in world.titles : Debounce(tab, title)
    \/ \E tab \in world.tabs, title \in world.titles : Accept(tab, title)
    \/ \E r \in Reqs : MetaFetchDone(r)
    \/ \E r \in Reqs : MetaJsonDone(r)
    \/ \E r \in Reqs : TokenDone(r)
    \/ \E r \in Reqs : ListFetchDone(r)
    \/ \E r \in Reqs : ErrJsonDone(r)
    \/ \E r \in Reqs : ListJsonDone(r)
    \/ \E r \in Reqs : EpFetchDone(r)
    \/ \E r \in Reqs : EpJsonDone(r)
    \/ \E r \in Reqs : FileFetchDone(r)
    \/ \E r \in Reqs : FileTextDone(r)

\* the message handler under concurrent messages, and the pipeline under faults
Spec == Init /\ [][Next]_vars
SpecPipe == InitPipe /\ [][Next]_vars

\* The providers of the crawler specification: one title, whose listing requests
\* may be answered with an error status. Directory A holds a file and the
\* subdirectories b and c; b links across to c; below c lies the chain d, e, f,
\* longer than the depth limit from A; f holds a file and a link back to A. The
\* episode list has three pages, of which the first alone announces a next page.
CrawlWorld ==
    LET Dir(n) == Entry("dir", <<n>>, SubtitlesPrefix \o <<n>>, Null)
        Srt(d, n) == Entry("file", <<n, ".", "s", "r", "t">>,
                           SubtitlesPrefix \o <<d, "/", n, ".", "s", "r", "t">>,
                           <<"r", "a", "w", "/", d, "/", n, ".", "s", "r", "t">>)
    IN [titles |-> {TitleAk},
        tabs |-> {0},
        types |-> {"OTHER"},
        metas |-> (<<"A">> :> {MediaA}),
        repo |-> (<<"A">> :> <<Srt("A", "1"), Dir("b"), Dir("c")>>
                  @@ <<"b">> :> <<Dir("c")>> @@ <<"c">> :> <<Dir("d")>>
                  @@ <<"d">> :> <<Dir("e")>> @@ <<"e">> :> <<Dir("f")>>
                  @@ <<"f">> :> <<Srt("f", "2"), Dir("A")>>),
        pages |-> <<[Page1 EXCEPT !.hasNext = TRUE],
                    [data |-> <<[number |-> 2, title |-> <<"L">>]>>, hasNext |-> FALSE],
                    [data |-> <<[number |-> 3, title |-> <<"M">>]>>, hasNext |-> FALSE]>>,
        bodies |-> {"SRT"},
        fuzzy |-> {UndefStr},
        faults |-> {"list_notok"},
        maxReq |-> MaxReqPipe,
        maxTicks |-> MaxTicks]

\* the pipeline over the directory graph when every await of the crawler settles:
\* the token read, the listing request and the reading of its body
SpecCrawl ==
    /\ InitWith(CrawlWorld)
    /\ [][Next]_vars
    /\ \A r \in Reqs :
        /\ WF_vars(TokenDone(r)) /\ WF_vars(ListFetchDone(r))
        /\ WF_vars(ErrJsonDone(r)) /\ WF_vars(ListJsonDone(r))

\* the pipeline over the same providers when every await of getAllEpisodesMAL
\* settles: the request of a page and the reading of its body
SpecEpisodes ==
    /\ InitWith(CrawlWorld)
    /\ [][Next]_vars
    /\ \A r \in Reqs : WF_vars(EpFetchDone(r)) /\ WF_vars(EpJsonDone(r))

\* The providers of the content-script specification: those of the concurrency
\* specification with one tab, two searches, and a file whose name has brackets.
ContentWorld ==
    [SmallWorld EXCEPT
        !.tabs = {0},
        !.types = {"OTHER"},
        !.repo = (<<"A">> :> <<Entry("file", <<"[", "1", "]", ".", "s", "r", "t">>,
                                    SubtitlesPrefix \o <<"A", "/", "[", "1", "]", ".", "s", "r", "t">>,
                                    <<"r", "a", "w", "/", "A", "/", "1">>),
                              DirAs>>),
        !.fuzzy = {UndefStr},
        !.maxReq = MaxReqPipe]

NextContent == Next \/ \E r \in Reqs : ResponseArrives(r)

\* the worker together with the content script of its tab
SpecContent == InitWith(ContentWorld) /\ [][NextContent]_vars

\* ---------------------------------------------- the matcher on its own

\* the longest file list the matcher is applied to
MaxFiles == 2

SubFile(name) == [name |-> name, url |-> name]
ShowS01E02 == <<"S", "h", "o", "w", " ", "S", "0", "1", "E", "0", "2", ".", "s", "r", "t">>
ShowS01E03 == <<"S", "h", "o", "w", " ", "S", "0", "1", "E", "0", "3", ".", "s", "r", "t">>
ShowE1 == <<"S", "h", "o", "w", " ", "E", "1", ".", "s", "r", "t">>
ShowE10 == <<"S", "h", "o", "w", " ", "E", "1", "0", ".", "s", "r", "t">>
ShowS00E01 == <<"S", "h", "o", "w", " ", "S", "0", "0", "E", "0", "1", ".", "s", "r", "t">>
Shows01e01 == <<"S", "h", "o", "w", " ", "s", "0", "1", "e", "0", "1", ".", "s", "r", "t">>
ShowS1E10 == <<"S", "h", "o", "w", " ", "S", "1", "E", "1", "0", ".", "s", "r", "t">>
Show11 == <<"S", "h", "o", "w", " ", "1", "1", ".", "s", "r", "t">>
ShowX == <<"S", "h", "o", "w", ".", "s", "r", "t">>
MatcherNames ==
    {ShowS01E02, ShowS01E03, ShowE1, ShowE10, ShowS00E01, Shows01e01, ShowS1E10,
     Show11, ShowX}

FileLists ==
    UNION {[1..n -> {SubFile(name) : name \in MatcherNames}] : n \in 0..MaxFiles}
ParsedTitles ==
    {[title |-> <<"S", "h", "o", "w">>, season |-> se, episode |-> ep, episodeTitle |-> et,
      year |-> Undefined] :
        se \in {Undefined, 0, 1}, ep \in {Undefined, 0, 1, 2}, et \in {UndefStr, <<"k">>}}
Metadatas == {[EmptyMeta EXCEPT !.malId = id] : id \in {Undefined, 7}}
EpisodeLists ==
    {<<>>, <<[number |-> 1, title |-> <<"K">>]>>,
     <<[number |-> 2, title |-> UndefStr], [number |-> 10, title |-> <<"K">>]>>}

\* matchSubtitleFile is called with a file list, a parsed title and metadata
InitMatch ==
    /\ world = SmallWorld
    /\ now = DEBOUNCE_MS
    /\ lastRequest = [title |-> <<>>, timestamp |-> 0]
    /\ activeSearches = [t \in SmallWorld.tabs |-> 0]
    /\ visitedDirs = {}
    /\ nreq = 0
    /\ req = [r \in Reqs |-> IdleReq]
    /\ mIn \in [files : FileLists, parsed : ParsedTitles, meta : Metadatas]
    /\ mPc = "call"
    /\ mOut = NoMatcherOutput
    /\ tIn = NoTitleInput
    /\ tPc = "off"
    /\ tOut = NoTitleOutput
    /\ content = [t \in SmallWorld.tabs |-> NoMenu]

\* matchSubtitleFile up to its first await: the list is empty, or rule 1 or 2
\* decides, or the episode list is awaited, or rules 4 and 5 decide
MatcherCall ==
    /\ mPc = "call"
    /\ IF awaitsEpisodes(mIn.files, mIn.parsed, mIn.meta)
       THEN mPc' = "episodes" /\ mOut' = mOut
       ELSE /\ mPc' = "done"
            /\ \E best \in FuzzyOutcomes(mIn.files) :
                  LET m == matchSubtitleFile(mIn.files, mIn.parsed, mIn.meta, <<>>, best)
                  IN mOut' = [idx |-> m.idx, rule |-> m.rule, threw |-> FALSE,
                              episodes |-> <<>>]
    /\ UNCHANGED <<workerVars, content, mIn, titleVars>>

\* matchSubtitleFile after getAllEpisodesMAL returned a list, or threw
MatcherEpisodes ==
    /\ mPc = "episodes"
    /\ mPc' = "done"
    /\ \/ mOut' = [NoMatcherOutput EXCEPT !.threw = TRUE]
       \/ \E eps \in EpisodeLists, best \in FuzzyOutcomes(mIn.files) :
             LET m == matchLate(mIn.files, mIn.parsed, mIn.meta, eps, best)
             IN mOut' = [idx |-> m.idx, rule |-> m.rule, threw |-> FALSE, episodes |-> eps]
    /\ UNCHANGED <<workerVars, content, mIn, titleVars>>

NextMatch == MatcherCall \/ MatcherEpisodes

SpecMatch == InitMatch /\ [][NextMatch]_vars

\* ------------------------- the title parser and the variant generator on their own

\* the longest of the arbitrary short titles
MaxLen == 4

\* "<Main> (<yyyy>) - S<s>E<e> - <EpTitle>" and "<Main> - <Rest>"
FullTitle(main, yyyy, s, e, rest) ==
    main \o <<" ", "(">> \o yyyy \o <<")">> \o Delim \o <<"S">> \o s \o <<"E">> \o e
         \o Delim \o rest
PlainTitle(main, rest) == main \o Delim \o rest

AnimeName == <<"A", "n", "i", "m", "e", " ", "N", "a", "m", "e">>
TheBeginning == <<"T", "h", "e", " ", "B", "e", "g", "i", "n", "n", "i", "n", "g">>
MainTitles == {<<"A">>, AnimeName, <<"A", " ", "(", "x", ")">>}
Years == {<<"2", "0", "2", "1">>, <<"1", "9", "9", "9">>}
SeasonTexts == {<<"1">>, <<"0">>, <<"0", "1">>, <<"1", "2">>}
EpisodeTexts == {<<"2">>, <<"0">>, <<"0", "3">>}
RestTitles == {<<"k">>, TheBeginning, <<"k", " ", "-", " ", "j">>}

FullInputs ==
    {[form |-> "full", title |-> FullTitle(m, y, se, ep, r), main |-> m, year |-> y,
      season |-> se, episode |-> ep, rest |-> r] :
        m \in MainTitles, y \in Years, se \in SeasonTexts, ep \in EpisodeTexts,
        r \in RestTitles}
PlainInputs ==
    {[NoTitleInput EXCEPT !.form = "plain", !.title = PlainTitle(m, r), !.main = m,
                          !.rest = r] : m \in MainTitles, r \in RestTitles}

\* any string: every short string over a few characters, and some longer titles
TitleAlphabet == {"A", " ", "-", "(", ")"}
ShortTitles == UNION {[1..n -> TitleAlphabet] : n \in 0..MaxLen}
LongTitles ==
    {<<"A", " ", "-", "(", ")", " ", "B">>,
     <<"(", ")", " ", "-", " ", "B">>,
     <<"(", "x", ")", " ", "-", " ", "B">>,
     <<"S", "h", "o", "w", " ", "-", " ", "S", "0", "1", " ", ":", " ", "E", "1", "0">>,
     <<"A", " ", "(", "1", "9", "9", "9", ")", " ", "-", " ", "B">>,
     <<"A", " ", "-", " ", "S", "1", "E", "2">>,
     <<" ", "-", " ">>}
AnyInputs == {[NoTitleInput EXCEPT !.form = "any", !.title = t] : t \in ShortTitles \cup LongTitles}

\* the metadata the generator is applied to
TitleMetas ==
    {EmptyMeta,
     [EmptyMeta EXCEPT !.english = <<"A", " ", "B">>, !.romaji = <<" ", "A", " ", "B", " ">>, !.native = <<>>,
                       !.hasSynonyms = TRUE, !.synonyms = <<<<"A", " ", "B">>, <<" ">>, <<"c">>>>],
     [EmptyMeta EXCEPT !.romaji = <<"A">>, !.native = <<"a", " ", "b">>, !.malId = 7,
                       !.hasSynonyms = TRUE]}

\* parseVideoTitle is called with a title
InitTitle ==
    /\ world = SmallWorld
    /\ now = DEBOUNCE_MS
    /\ lastRequest = [title |-> <<>>, timestamp |-> 0]
    /\ activeSearches = [t \in SmallWorld.tabs |-> 0]
    /\ visitedDirs = {}
    /\ nreq = 0
    /\ req = [r \in Reqs |-> IdleReq]
    /\ mIn = NoMatcherInput
    /\ mPc = "off"
    /\ mOut = NoMatcherOutput
    /\ tIn \in FullInputs \cup PlainInputs \cup AnyInputs
    /\ tPc = "call"
    /\ tOut = NoTitleOutput
    /\ content = [t \in SmallWorld.tabs |-> NoMenu]

\* parseVideoTitle returns
ParseTitle ==
    /\ tPc = "call"
    /\ tPc' = "parsed"
    /\ tOut' = [tOut EXCEPT !.parsed = parseVideoTitle(tIn.title)]
    /\ UNCHANGED <<workerVars, content, matcherVars, tIn>>

\* parseVideoTitle is applied to the main title it returned
ReparseTitle ==
    /\ tPc = "parsed"
    /\ tPc' = "reparsed"
    /\ tOut' = [tOut EXCEPT !.again = parseVideoTitle(tOut.parsed.title)]
    /\ UNCHANGED <<workerVars, content, matcherVars, tIn>>

\* generateTitleVariants is applied to the parsed title and some metadata
GenerateVariants ==
    /\ tPc = "parsed"
    /\ tPc' = "generated"
    /\ \E meta \in TitleMetas :
          tOut' = [tOut EXCEPT !.meta = meta,
                               !.variants = generateTitleVariants(tOut.parsed, meta)]
    /\ UNCHANGED <<workerVars, content, matcherVars, tIn>>

NextTitle == ParseTitle \/ ReparseTitle \/ GenerateVariants

SpecTitle == InitTitle /\ [][NextTitle]_vars

\* ------------------------------------------------------------------ claims

\* C1: a request that was in flight when another request of the same tab was
\* accepted is answered {text: "", fileName: null}, whatever its own pipeline
\* computed.
C1_SupersededAnsweredEmpty ==
    \A a \in Reqs : (req[a].superseded /\ req[a].pc = "done") => req[a].resp = Sentinel

\* a superseded request whose pipeline matched a file was answered with the sentinel
C1_Witness ==
    \E a \in Reqs :
        /\ req[a].superseded /\ req[a].pc = "done"
        /\ req[a].kind = "match" /\ req[a].result.fileName # Null
        /\ req[a].resp = Sentinel

\* C2: a request accepted while another of its tab was in flight, and after which
\* no request of its tab was accepted before it completed, is answered with exactly
\* what its own fetchSubtitle returned.
C2_SupersedingResultDelivered ==
    \A b \in Reqs :
        (req[b].supersedes /\ ~req[b].superseded /\ req[b].pc = "done" /\ ~req[b].threw)
            => (req[b].resp = req[b].result /\ req[b].result # NoResult)

\* the superseding request was answered with a matched file while the request it
\* superseded was still in flight
C2_Witness ==
    \E a, b \in Reqs :
        /\ a < b /\ req[a].tab = req[b].tab
        /\ req[a].superseded /\ req[a].pc # "done"
        /\ req[b].supersedes /\ ~req[b].superseded /\ req[b].pc = "done"
        /\ req[b].resp.fileName # Null

\* GET_SUBS message r2 has the title of the accepted message r1 and arrived less
\* than DEBOUNCE_MS after it
InWindow(r1, r2) ==
    /\ r1 < r2 /\ r2 <= nreq
    /\ req[r1].type = "GET_SUBS" /\ req[r1].accepted
    /\ req[r2].type = "GET_SUBS" /\ req[r2].title = req[r1].title
    /\ req[r2].arrivedAt - req[r1].arrivedAt < DEBOUNCE_MS

\* C3 as stated: the second of two requests with the same title, arriving less
\* than 1000 ms after the first was accepted, is answered with the sentinel, for
\* every sequence of other requests in between.
C3_AsStated ==
    \A r1, r2 \in Reqs :
        (InWindow(r1, r2) /\ req[r2].pc = "done") => req[r2].resp = Sentinel

\* C3: the second of two requests with the same title, arriving less than 1000 ms
\* after the first was accepted, is rejected at once with the sentinel, for every
\* choice of tabs, provided no request with another title was accepted in between.
C3_DebounceSinceLastAccepted ==
    \A r1, r2 \in Reqs :
        (/\ InWindow(r1, r2)
         /\ \A r \in (r1 + 1)..(r2 - 1) :
                ~(req[r].accepted /\ req[r].title # req[r1].title))
            => (/\ ~req[r2].accepted /\ req[r2].pc = "done"
                /\ req[r2].resp = Sentinel /\ req[r2].nMeta = 0)

\* a request of another tab was rejected inside the window, some time after the
\* first was accepted and after another message
C3_Witness ==
    \E r1, r2 \in Reqs :
        /\ InWindow(r1, r2) /\ r2 > r1 + 1
        /\ ~req[r1 + 1].accepted
        /\ req[r2].tab # req[r1].tab
        /\ req[r2].arrivedAt > req[r1].arrivedAt
        /\ req[r2].resp = Sentinel /\ ~req[r2].accepted

\* the step receives a GET_SUBS message that is debounced
DebouncedArrival ==
    /\ nreq' = nreq + 1
    /\ req'[nreq'].type = "GET_SUBS"
    /\ debounced(lastRequest, req'[nreq'].title, now)

\* C4: a debounced request issues no network request, leaves the debounce record
\* and the session map unchanged, and leaves every other request, its cancelled
\* flag and its position included, as it was.
C4_DebouncedChangesNothing ==
    [][DebouncedArrival =>
          /\ lastRequest' = lastRequest
          /\ activeSearches' = activeSearches
          /\ visitedDirs' = visitedDirs
          /\ \A a \in Reqs \ {nreq'} : req'[a] = req[a]
          /\ req'[nreq'].nMeta = 0 /\ req'[nreq'].nEp = 0 /\ req'[nreq'].nFile = 0
          /\ req'[nreq'].listed = <<>>
          /\ req'[nreq'].pc = "done" /\ req'[nreq'].resp = Sentinel]_vars

\* a request was debounced while a request of its tab was in flight, and that
\* request is still in flight and not cancelled
C4_Witness ==
    \E a, d \in Reqs :
        /\ a < d /\ req[d].kind = "debounced" /\ req[d].tab = req[a].tab
        /\ InFlight(req[a]) /\ ~req[a].cancelled
        /\ activeSearches[req[a].tab] = a

\* a GET_SUBS message that was answered
Answered(r) == req[r].type = "GET_SUBS" /\ req[r].pc = "done"

\* C5 as stated: in every GET_SUBS response text is non-empty only if fileName is
\* non-null, and every response that carries no matched file (no metadata record,
\* a provider's non-2xx answer, no match in any variant, superseded, debounced) is
\* {text: "", fileName: null}.
C5_UniformFailureShape ==
    \A r \in Reqs :
        Answered(r) =>
            /\ req[r].resp.text # "" => req[r].resp.fileName # Null
            /\ req[r].kind # "match" => req[r].resp = Sentinel

\* C6: the listener sends one response per message, none while the handler is
\* pending and one when it settled, and when a stage of the pipeline threw that
\* response is {text: "", fileName: null}.
C6_OneResponseNoException ==
    \A r \in Reqs :
        /\ req[r].nresp = (IF req[r].pc = "done" THEN 1 ELSE 0)
        /\ r <= nreq => req[r].pc # "idle"
        /\ req[r].threw => (req[r].pc = "done" /\ req[r].resp = Sentinel)

\* the fetch of a matched file threw and the message was answered, once, with
\* the sentinel
C6_Witness ==
    \E r \in Reqs :
        /\ req[r].threw /\ req[r].nFile = 1 /\ req[r].pc = "done"
        /\ req[r].nresp = 1 /\ req[r].resp = Sentinel

\* C7: when the metadata lookup yields no english, romaji or native title and no
\* synonyms, fetchSubtitle returns the no-record result in that step and the
\* request lists no directory, asks for no episode list and fetches no file.
C7_NoRecordShortCircuit ==
    \A r \in Reqs :
        req[r].metaEmpty =>
            /\ req[r].pc = "done" /\ req[r].kind = "norecord" /\ req[r].result = NoRecord
            /\ req[r].listed = <<>> /\ req[r].probes = <<>>
            /\ req[r].nEp = 0 /\ req[r].nFile = 0

\* a lookup yielded empty metadata and the request was answered with the
\* no-record result
C7_Witness ==
    \E r \in Reqs :
        /\ req[r].metaEmpty /\ req[r].pc = "done" /\ req[r].nMeta = 1
        /\ req[r].resp = NoRecord

\* the position of directory dir among the variants of request r
VariantIndex(r, dir) == CHOOSE i \in 1..Len(req[r].variants) : req[r].variants[i] = dir

\* the listings request r asked for at the root of a variant, in order
RootListings(r) ==
    LET l == req[r].listed
        F[j \in 0..Len(l)] ==
            IF j = 0 THEN <<>>
            ELSE IF l[j].depth = 0 THEN Append(F[j - 1], l[j].dir) ELSE F[j - 1]
    IN F[Len(l)]

\* C8: the variants are crawled one at a time in the order of the generator; a
\* matched file comes from the first variant whose crawl returned files and no
\* later variant is crawled; exhaustion is returned only after the crawl of every
\* variant returned an empty list.
C8_ProbeOrder ==
    \A r \in Reqs :
        LET probes == req[r].probes
            variants == req[r].variants
            roots == RootListings(r)
            n == Len(probes)
        IN /\ n <= Len(variants)
           /\ \A i \in 1..n : probes[i].variant = variants[i]
           /\ \A i \in 1..(n - 1) : probes[i].files = <<>>
           /\ \A j \in 1..Len(roots) :
                 /\ roots[j] \in {variants[i] : i \in 1..Len(variants)}
                 /\ VariantIndex(r, roots[j]) <= (IF req[r].nFile > 0 THEN n ELSE n + 1)
                 /\ \A k \in 1..(j - 1) : VariantIndex(r, roots[k]) < VariantIndex(r, roots[j])
           /\ req[r].nFile > 0 => (n > 0 /\ probes[n].files # <<>>)
           /\ req[r].kind = "match" =>
                 /\ n > 0
                 /\ req[r].result.fileName \in {probes[n].files[i].name :
                                                   i \in 1..Len(probes[n].files)}
           /\ req[r].kind = "exhausted" =>
                 /\ n = Len(variants) /\ req[r].result = Sentinel
                 /\ \A i \in 1..n : probes[i].files = <<>>

\* a file was matched in the second variant after the crawl of the first returned
\* no file, and a third variant was never crawled
C8_Witness ==
    \E r \in Reqs :
        /\ req[r].kind = "match" /\ req[r].pc = "done"
        /\ Len(req[r].probes) = 2 /\ Len(req[r].variants) > 2
        /\ req[r].probes[1].files = <<>>
        /\ req[r].resp.fileName = req[r].probes[2].files[1].name

\* the files whose name contains S<season>E<episode>, zero-padded at will, with no
\* digit after the episode number
SeasonEpisodeFiles ==
    {i \in 1..Len(mIn.files) :
        testSeasonEpisode(mIn.files[i].name, mIn.parsed.season, mIn.parsed.episode)}

\* C9 as stated: for a file list that is not empty and a parsed title whose season
\* and episode are known, when some filename contains S<season>E<episode> the
\* matcher returns the first such file, without asking for the episode list.
C9_Rule1Precedence ==
    (/\ mPc # "call"
     /\ mIn.parsed.season # Undefined /\ mIn.parsed.episode # Undefined
     /\ SeasonEpisodeFiles # {})
        => (/\ mPc = "done" /\ ~mOut.threw
            /\ mOut.idx \in SeasonEpisodeFiles
            /\ \A i \in SeasonEpisodeFiles : mOut.idx <= i)

\* the decimal digits of n occur in name and no digit follows them
GuardedOccurrence(name, n) ==
    \E j \in 1..Len(name) :
        /\ StartsAt(name, j, toString(n))
        /\ ~IsDigit(At(name, j + Len(toString(n))))

\* the episode numbers rule 3 may look for: those of the listed episodes whose
\* title contains the parsed episode title
TitledNumbers ==
    {mOut.episodes[i].number : i \in
        {k \in 1..Len(mOut.episodes) :
            /\ mOut.episodes[k].title # UndefStr
            /\ includes(toLowerCase(mOut.episodes[k].title),
                        toLowerCase(mIn.parsed.episodeTitle))}}

\* C10: a file selected by rule 1, 2 or 3 has an occurrence of the episode number
\* that no digit follows; for "Show E1.srt" and "Show E10.srt" in either order,
\* episode 1 and no season, "Show E1.srt" is returned.
C10_TrailingDigitGuard ==
    mPc = "done" =>
        /\ mOut.rule \in {1, 2} =>
              GuardedOccurrence(mIn.files[mOut.idx].name, mIn.parsed.episode)
        /\ mOut.rule = 3 =>
              \E n \in TitledNumbers : GuardedOccurrence(mIn.files[mOut.idx].name, n)
        /\ (/\ mIn.files \in {<<SubFile(ShowE1), SubFile(ShowE10)>>,
                              <<SubFile(ShowE10), SubFile(ShowE1)>>}
            /\ mIn.parsed.episode = 1 /\ mIn.parsed.season = Undefined)
              => (mOut.idx # 0 /\ mIn.files[mOut.idx].name = ShowE1)

\* "Show E10.srt" came first and was passed over for "Show E1.srt"
C10_Witness ==
    /\ mPc = "done"
    /\ mIn.files = <<SubFile(ShowE10), SubFile(ShowE1)>>
    /\ mIn.parsed.episode = 1 /\ mIn.parsed.season = Undefined
    /\ mOut.rule = 2 /\ mOut.idx = 2

\* C11 as stated: for every file list that is not empty, every parsed title and
\* every metadata value the matcher returns one file of the list, the first one
\* when no earlier rule matches; it returns none only for the empty list.
C11_MatcherTotality ==
    mPc = "done" =>
        /\ ~mOut.threw
        /\ mOut.idx = 0 <=> mIn.files = <<>>
        /\ mOut.idx \in 0..Len(mIn.files)
        /\ mOut.rule = 5 => mOut.idx = 1

\* the number a decimal numeral of the title inputs denotes
Numeral ==
    <<"1">> :> 1 @@ <<"0">> :> 0 @@ <<"0", "1">> :> 1 @@ <<"1", "2">> :> 12 @@ <<"2">> :> 2
    @@ <<"0", "3">> :> 3 @@ <<"2", "0", "2", "1">> :> 2021 @@ <<"1", "9", "9", "9">> :> 1999

\* a main title of the title inputs without its parenthesised part, trimmed
ExpectedMain(main) == IF main = <<"A", " ", "(", "x", ")">> THEN <<"A">> ELSE main

C14_MainTitleIdempotent ==
    (/\ tPc = "reparsed"
     /\ tOut.again.season = Undefined /\ tOut.again.episode = Undefined
     /\ tOut.again.year = Undefined)
        => tOut.again.title = tOut.parsed.title

\* the source fields of the generator that are not empty
SourceFields ==
    {f \in {tOut.parsed.title, tOut.meta.english, tOut.meta.romaji, tOut.meta.native}
           \cup {tOut.meta.synonyms[i] : i \in 1..Len(tOut.meta.synonyms)} :
        f # UndefStr /\ f # <<>>}

\* C15: the output of the generator holds no string twice and holds, for each
\* source field that is not empty (main title, english, romaji, native, each
\* synonym), the trimmed value of that field.
C15_VariantsDistinctAndComplete ==
    tPc = "generated" =>
        LET v == tOut.variants
            out == {v[i] : i \in 1..Len(v)}
        IN /\ \A i, j \in 1..Len(v) : i # j => v[i] # v[j]
           /\ \A f \in SourceFields : trim(f) \in out
           /\ tOut.meta.romaji = <<" ", "A", " ", "B", " ">> => <<"A", " ", "B">> \in out

\* a romaji title that trims to the english title was generated from, next to a
\* main title, and the common value is listed once
C15_Witness ==
    /\ tPc = "generated"
    /\ tOut.meta.english = <<"A", " ", "B">> /\ tOut.meta.romaji = <<" ", "A", " ", "B", " ">>
    /\ tOut.parsed.title = AnimeName
    /\ Cardinality({i \in 1..Len(tOut.variants) : tOut.variants[i] = <<"A", " ", "B">>}) = 1
    /\ tOut.variants[1] = AnimeName

\* the directories request r asked a listing of, as many times as it asked
TimesListed(r, dir) ==
    Cardinality({j \in 1..Len(req[r].listed) : req[r].listed[j].dir = dir})

\* C16: a crawl that was started returns (or throws), whatever the directory
\* graph, cycles included, provided every listing request completes.
C16_CrawlTerminates ==
    \A r \in Reqs : (req[r].stack # <<>>) ~> (req[r].stack = <<>>)

\* a crawl returned after it entered directory c twice, through the link from A
\* and through the cross-link from b, and reached f, whose link back to A lies
\* beyond the depth limit
C16_Witness ==
    \E r \in Reqs :
        /\ req[r].stack = <<>> /\ Len(req[r].probes) > 0
        /\ TimesListed(r, <<"c">>) = 2
        /\ TimesListed(r, <<"f">>) = 1
        /\ TimesListed(r, <<"A">>) = 1

\* C17: within one resolution call the crawler asks for the listing of each
\* directory at most once, whatever other calls are in flight.
C17_ListedAtMostOnce ==
    \A r \in Reqs : \A j, k \in 1..Len(req[r].listed) :
        req[r].listed[j].dir = req[r].listed[k].dir => j = k

\* C18: the visited set of one resolution call is untouched by any other call: no
\* crawl of a call returns without asking for the listing of its directory
\* because another call visited that directory.
C18_CrawlAsksForItsRoot ==
    \A r \in Reqs : \A j \in 1..Len(req[r].probes) :
        \E k \in 1..Len(req[r].listed) :
            /\ req[r].listed[k].dir = req[r].probes[j].variant
            /\ req[r].listed[k].depth = 0

\* C19: once the cancelled flag of a session context is set, its pipeline starts
\* the crawl of no further directory, so that no listing request follows the one
\* that may be under way.
C19_NoDescentOnceCancelled ==
    [][\A r \in Reqs :
          req[r].cancelled => ~(req[r].pc # "token" /\ req'[r].pc = "token")]_vars

\* C20: a pipeline whose cancelled flag was set before it starts its episode-list
\* request or its subtitle-file fetch does not issue that request.
C20_NoRequestOnceCancelled ==
    [][\A r \in Reqs :
          req[r].cancelled => /\ req'[r].nEp <= req[r].nEp
                              /\ req'[r].nFile <= req[r].nFile]_vars

\* the in-flight pipelines of session tab whose context is not cancelled
Uncancelled(tab) ==
    {r \in Reqs : InFlight(req[r]) /\ req[r].tab = tab /\ ~req[r].cancelled}

\* C21: the step that accepts a request for a session cancels the context that
\* was registered for it and registers a fresh, uncancelled one; in every state
\* the only in-flight pipeline of a session with an uncancelled context is the
\* one registered in the session map; a cancelled flag is never reset.
C21_SessionContextReplaced ==
    /\ [](\A tab \in world.tabs : Uncancelled(tab) \subseteq {activeSearches[tab]})
    /\ [][\A r \in Reqs : req[r].cancelled => req'[r].cancelled]_vars
    /\ [][(nreq' = nreq + 1 /\ req'[nreq'].accepted) =>
            LET tab == req'[nreq'].tab
                prev == activeSearches[tab]
            IN /\ prev # 0 => req'[prev].cancelled
               /\ activeSearches'[tab] = nreq'
               /\ ~req'[nreq'].cancelled]_vars

\* a session whose earlier pipeline is still in flight, cancelled, beside the
\* registered, uncancelled pipeline that superseded it
C21_Witness ==
    \E a, b \in Reqs :
        /\ InFlight(req[a]) /\ InFlight(req[b]) /\ req[a].tab = req[b].tab
        /\ req[a].cancelled /\ ~req[b].cancelled
        /\ activeSearches[req[b].tab] = b

\* the listing request of call r for the directory on top of its call stack
TopListing(r) ==
    LET top == req[r].stack[Len(req[r].stack)]
    IN [dir |-> top.dir, depth |-> top.depth]

\* C22: the subdirectories of a crawl are descended one after another. The calls
\* of a crawl that have not returned form one chain, one per depth; the only
\* listing request outstanding is the last one issued, for the directory at the
\* end of the chain, so that nothing of an earlier sibling's subtree is pending;
\* and a listing request is issued only while none is outstanding.
C22_SequentialDescent ==
    /\ [](\A r \in Reqs :
            /\ \A i \in 1..Len(req[r].stack) : req[r].stack[i].depth = i - 1
            /\ req[r].pc \in {"list_fetch", "err_json", "list_json"} =>
                 /\ req[r].stack # <<>>
                 /\ req[r].listed # <<>>
                 /\ req[r].listed[Len(req[r].listed)] = TopListing(r))
    /\ [][\A r \in Reqs :
            req'[r].listed # req[r].listed =>
                 /\ req[r].pc = "token" /\ req'[r].pc = "list_fetch"
                 /\ req'[r].stack = req[r].stack
                 /\ req'[r].listed = Append(req[r].listed, TopListing(r))]_vars

\* the listing of c, a subdirectory of A, is outstanding after the listing of its
\* sibling b was issued and the subtree of b returned
C22_Witness ==
    \E r \in Reqs :
        /\ req[r].pc = "list_fetch"
        /\ TopListing(r) = [dir |-> <<"c">>, depth |-> 1]
        /\ \E j \in 1..Len(req[r].listed) : req[r].listed[j] = [dir |-> <<"b">>, depth |-> 1]

\* C23: within a crawl a delay step precedes each descent into a subdirectory:
\* the step that starts the crawl of a subdirectory is the one that ends a delay.
C23_DelayBeforeDescent ==
    [][\A r \in Reqs :
          (req[r].pc # "token" /\ req'[r].pc = "token" /\ Len(req'[r].stack) > 1)
              => req[r].pc = "delay"]_vars

\* call r starts the crawl of a directory in this step
StartsCrawl(r) == req[r].pc # "token" /\ req'[r].pc = "token"

\* C24: no listing request is issued for a directory deeper than the depth limit,
\* the probed variant being at depth 0; a crawl is started only on a key that is
\* within the limit and not yet visited; and a step of a call adds to the visited
\* set the key of the directory whose crawl it starts and nothing else, so that a
\* call that is skipped leaves the set as it was.
C24_DepthBound ==
    /\ [](\A r \in Reqs : \A j \in 1..Len(req[r].listed) :
             req[r].listed[j].depth <= MaxDepth)
    /\ [][\A r \in Reqs :
            StartsCrawl(r) =>
                LET top == req'[r].stack[Len(req'[r].stack)]
                IN /\ top.depth <= MaxDepth
                   /\ top.dir \notin visitedDirs
                   /\ visitedDirs' = visitedDirs \cup {top.dir}]_vars
    /\ [][(nreq' = nreq /\ \A r \in Reqs : ~StartsCrawl(r))
              => visitedDirs' = visitedDirs]_vars

\* a crawl returned the file of f, listed at the depth limit, whose link back to A
\* was a call beyond the limit: no second listing of A was asked for
C24_Witness ==
    \E r \in Reqs :
        /\ Len(req[r].probes) > 0
        /\ \E j \in 1..Len(req[r].probes[1].files) :
              req[r].probes[1].files[j].name = <<"2", ".", "s", "r", "t">>
        /\ \E j \in 1..Len(req[r].listed) :
              req[r].listed[j] = [dir |-> <<"f">>, depth |-> MaxDepth]
        /\ TimesListed(r, <<"A">>) = 1

\* C25: a listing answered with an error status makes its branch return the empty
\* list, whatever the body of the response: the step that follows the reading of
\* that body does not make the call throw.
C25_FailedListingDoesNotRaise ==
    [][\A r \in Reqs : req[r].pc = "err_json" => ~req'[r].threw]_vars

\* C26: when the download of the chosen file is answered with an error status, the
\* fetcher returns the empty string, never the body of the error response, and the
\* text of the pipeline's result is empty.
C26_FailedDownloadYieldsEmptyText ==
    [][\A r \in Reqs :
          (req[r].pc = "file_text" /\ ~req[r].ok /\ req'[r].pc = "done" /\ ~req'[r].threw)
              => req'[r].result.text = ""]_vars

\* C27: the metadata resolver never raises: once its request was answered with a
\* success status, whatever the body holds (a record, no record, a malformed body,
\* a record without a title object), the step that reads it does not throw.
C27_MetadataResolverNeverRaises ==
    [][\A r \in Reqs : req[r].pc = "meta_json" => ~req'[r].threw]_vars

\* C28: when the answer to an episode-list page is an error or a body without a
\* data array, rule 3 yields nothing and the matcher goes on with rules 4 and 5:
\* the step that reads the page does not throw, and the pipeline goes on to fetch
\* a file of the list, which is not empty.
C28_EpisodeFailureFallsThrough ==
    [][\A r \in Reqs :
          (req[r].pc = "ep_json" /\ req'[r].pc \notin {"ep_json", "ep_fetch"})
              => ~req'[r].threw /\ req'[r].pc = "file_fetch"]_vars

\* the entries of pages 1 to k of the provider, in page order
RECURSIVE PagesUpTo(_, _)
PagesUpTo(pages, k) ==
    IF k = 0 THEN <<>> ELSE PagesUpTo(pages, k - 1) \o PageOf(pages, k).data

\* C29: the pages of the episode list are requested in the order 1, 2, 3, ...,
\* the entries of each page are appended in page order, the page after a page
\* that announces a next page is requested, the first page that announces none is
\* the last one requested, and the resolver ends with the concatenation of the
\* pages it requested.
C29_Pagination ==
    /\ [](\A r \in Reqs :
            req[r].pc \in {"ep_fetch", "ep_json"} =>
                /\ req[r].page >= 1
                /\ req[r].nEp = req[r].page
                /\ req[r].episodes = PagesUpTo(world.pages, req[r].page - 1)
                /\ \A q \in 1..(req[r].page - 1) : PageOf(world.pages, q).hasNext)
    /\ [][\A r \in Reqs :
            (req[r].pc = "ep_json" /\ req'[r].pc # "ep_json") =>
                IF PageOf(world.pages, req[r].page).hasNext
                THEN req'[r].pc = "ep_fetch" /\ req'[r].page = req[r].page + 1
                ELSE /\ req'[r].pc = "file_fetch"
                     /\ req'[r].nEp = req[r].nEp
                     /\ req'[r].episodes = PagesUpTo(world.pages, req[r].page)]_vars
    /\ \A r \in Reqs :
          (req[r].pc = "ep_fetch") ~> (req[r].pc \notin {"ep_fetch", "ep_json"})

\* the resolver returned the entries of two pages after two requests, the second
\* page announcing no next page and the provider holding a third
C29_Witness ==
    \E r \in Reqs :
        /\ req[r].pc = "file_fetch" /\ req[r].nEp = 2
        /\ Len(world.pages) = 3
        /\ req[r].episodes = world.pages[1].data \o world.pages[2].data

\* C30: the episode-list provider is queried only when the file list is not
\* empty, rules 1 and 2 found no file, and an episode title and an episode-list id
\* are both there; and the episode list is fetched at most once in a resolution
\* call: its first page is requested only if no page was requested before, any
\* further page only after the page before it was read.
C30_LazyEpisodeIndex ==
    /\ [](\A r \in Reqs :
            req[r].pc \in {"ep_fetch", "ep_json"} =>
                /\ req[r].files # <<>>
                /\ matchRule1(req[r].files, req[r].parsed) = 0
                /\ matchRule2(req[r].files, req[r].parsed) = 0
                /\ TruthyStr(req[r].parsed.episodeTitle)
                /\ TruthyNum(req[r].meta.malId))
    /\ [][\A r \in Reqs :
            req'[r].nEp > req[r].nEp =>
                /\ req'[r].nEp = req[r].nEp + 1
                /\ req[r].nEp = 0 \/ req[r].pc = "ep_json"]_vars

\* a call with an episode title and an episode-list id whose file was found by
\* rule 2: it goes on to fetch the file without having asked for the episode list
C30_Witness ==
    \E r \in Reqs :
        /\ req[r].pc = "file_fetch" /\ req[r].rule = 2 /\ req[r].nEp = 0
        /\ needsEpisodes(req[r].parsed, req[r].meta)

\* number n stands in name as a token of its own: its digits, with no digit right
\* after them and, before them and the zeros that pad them, no digit either
StandaloneOccurrence(name, n) ==
    \E k \in 1..Len(name) :
        /\ StartsAt(name, k, toString(n))
        /\ ~IsDigit(At(name, k + Len(toString(n))))
        /\ \E z \in 1..k :
              /\ \A m \in z..(k - 1) : name[m] = "0"
              /\ ~IsDigit(At(name, z - 1))

\* C31: with the season unknown and the episode known, rule 2 selects a file only
\* if its name holds the episode number as a token of its own.
C31_Rule2StandaloneToken ==
    (mPc = "done" /\ mOut.rule = 2) =>
        StandaloneOccurrence(mIn.files[mOut.idx].name, mIn.parsed.episode)

\* C32: rule 1 applies when season and episode were both parsed, 0 included: with
\* a season or an episode that is 0 and a file named S<season>E<episode> in the
\* list, the matcher decides by rule 1.
C32_Rule1AppliesToZero ==
    (/\ mPc = "done" /\ ~mOut.threw
     /\ mIn.parsed.season # Undefined /\ mIn.parsed.episode # Undefined
     /\ mIn.parsed.season = 0 \/ mIn.parsed.episode = 0
     /\ SeasonEpisodeFiles # {})
        => mOut.rule = 1

\* title t has exactly two segments, the second of which is a season/episode
\* token and nothing else
MainAndToken(t) ==
    /\ Len(split(t)) = 2
    /\ trim(split(t)[1]) # <<>>
    /\ LET seg == trim(split(t)[2])
       IN /\ SeasonEpisodeAt(seg, 1)
          /\ DigitRunEnd(seg, SepRunEnd(seg, DigitRunEnd(seg, 2)) + 1) = Len(seg) + 1

\* C33: the segment that holds the season/episode token is no part of the episode
\* title: a title "<Main> - S<s>E<e>" is parsed with no episode title.
C33_TokenSegmentNotEpisodeTitle ==
    (tPc = "parsed" /\ MainAndToken(tIn.title)) => tOut.parsed.episodeTitle = UndefStr

\* the forms of one source, in the order the claim gives them
FormsOf(s) ==
    LET b == trim(s)
    IN <<b, replaceSpaces(b, "+"), replaceSpaces(b, "."), replaceSpaces(b, "_"),
         toLowerCase(b)>>
       \o (IF Len(b) > 1 THEN <<SubSeq(b, 1, Len(b) - 1)>> ELSE <<>>)

\* every form of every present source, duplicates included, in emission order
RECURSIVE FormsOfAll(_)
FormsOfAll(sources) ==
    IF sources = <<>> THEN <<>>
    ELSE (IF TruthyStr(sources[1]) THEN FormsOf(sources[1]) ELSE <<>>)
         \o FormsOfAll(Tail(sources))

Emitted ==
    FormsOfAll(<<tOut.parsed.title, tOut.meta.english, tOut.meta.romaji, tOut.meta.native>>
               \o tOut.meta.synonyms)

FirstPosition(seq, x) == CHOOSE i \in 1..Len(seq) : seq[i] = x /\ \A j \in 1..(i - 1) : seq[j] # x

\* the variants are the emitted strings, each at the place of its first emission
InFirstInsertionOrder ==
    /\ {tOut.variants[i] : i \in 1..Len(tOut.variants)} = {Emitted[i] : i \in 1..Len(Emitted)}
    /\ \A i, j \in 1..Len(tOut.variants) :
          i < j => FirstPosition(Emitted, tOut.variants[i]) < FirstPosition(Emitted, tOut.variants[j])

\* C34 as stated: the variants are in first-insertion order and the first variant
\* is always the trimmed parsed main title.
C34_AsStated ==
    tPc = "generated" =>
        /\ InFirstInsertionOrder
        /\ tOut.variants # <<>> => tOut.variants[1] = trim(tOut.parsed.title)

\* C34: the variants are the forms of main title, english, romaji, native and the
\* synonyms in that order, each string at the place of its first emission, and
\* the first variant is the trimmed parsed main title whenever that title is
\* not empty.
C34_VariantOrder ==
    tPc = "generated" =>
        /\ InFirstInsertionOrder
        /\ TruthyStr(tOut.parsed.title) =>
              tOut.variants # <<>> /\ tOut.variants[1] = trim(tOut.parsed.title)

\* a non-empty main title, synonyms, and a string emitted more than once
C34_Witness ==
    /\ tPc = "generated"
    /\ TruthyStr(tOut.parsed.title)
    /\ tOut.meta.synonyms # <<>>
    /\ Len(tOut.variants) < Len(Emitted)
    /\ Len(tOut.variants) > 6

\* the name ends in ".srt" in any case, or is "srt" itself
IsSrtName(name) ==
    /\ Len(name) >= 3
    /\ toLowerCase(SubSeq(name, Len(name) - 2, Len(name))) = <<"s", "r", "t">>
    /\ \A i \in 1..(Len(name) - 3) : name[i] = "." => i = Len(name) - 3
    /\ Len(name) > 3 => name[Len(name) - 3] = "."

\* file f was made from an entry of type file, named *.srt, of some listing
FromSrtEntry(f) ==
    \E dir \in DOMAIN world.repo : \E i \in 1..Len(world.repo[dir]) :
        LET e == world.repo[dir][i]
        IN e.type = "file" /\ e.name = f.name /\ e.url = f.url /\ IsSrtName(e.name)

\* every file a crawl holds or has returned
CrawledFiles(r) ==
    {req[r].files[i] : i \in 1..Len(req[r].files)}
    \cup UNION {{req[r].stack[k].files[i] : i \in 1..Len(req[r].stack[k].files)} :
                   k \in 1..Len(req[r].stack)}
    \cup UNION {{req[r].probes[k].files[i] : i \in 1..Len(req[r].probes[k].files)} :
                   k \in 1..Len(req[r].probes)}

\* the entries call k of the crawl of r has yet to classify when a listing or an
\* error body has just been read by the innermost call
PendingItems(r, k) ==
    IF k < Len(req[r].stack) THEN req[r].stack[k].items
    ELSE IF req[r].pc = "list_json" THEN world.repo[req[r].stack[k].dir] ELSE <<>>

\* the directory of entry e is one the crawler does not enter from depth d
NotToEnter(e, d) ==
    d + 1 > MaxDepth \/ From(e.path, Len(SubtitlesPrefix) + 1) \in visitedDirs

\* in a step of r that classifies entries, no directory is passed over unless it
\* was visited or lies too deep, and the step ends at the first one to enter
ClassifiesEntries(r) ==
    (/\ req[r].pc \in {"list_json", "err_json"}
     /\ req'[r].pc \notin {"list_json", "err_json"}
     /\ ~req'[r].threw) =>
        LET stack == req[r].stack
            returned == Len(req'[r].probes) > Len(req[r].probes)
            n2 == IF returned THEN 0 ELSE Len(req'[r].stack)
            taken(k) == IF k >= n2 THEN Len(PendingItems(r, k))
                        ELSE IF k = n2 - 1
                        THEN Len(PendingItems(r, k)) - Len(req'[r].stack[k].items)
                        ELSE 0
        IN /\ ~returned =>
                /\ req'[r].pc = "token"
                /\ n2 \in 2..(Len(stack) + 1)
                /\ taken(n2 - 1) >= 1
                /\ LET e == PendingItems(r, n2 - 1)[taken(n2 - 1)]
                       new == req'[r].stack[n2]
                   IN /\ e.type = "dir"
                      /\ e.path = SubtitlesPrefix \o new.dir
                      /\ new.depth = stack[n2 - 1].depth + 1
                      /\ ~NotToEnter(e, stack[n2 - 1].depth)
                      /\ new.dir \in visitedDirs'
           /\ \A k \in 1..Len(stack) : \A i \in 1..taken(k) :
                 (PendingItems(r, k)[i].type = "dir" /\ ~(k = n2 - 1 /\ i = taken(k)))
                     => NotToEnter(PendingItems(r, k)[i], stack[k].depth)

\* C35: every file of a crawl comes from an entry of type file named *.srt in
\* any case, so no .ass file or file of another extension is returned, and every
\* directory entry not yet visited and within the depth bound is descended into.
C35_EntryClassification ==
    /\ [](\A r \in Reqs : \A f \in CrawledFiles(r) : FromSrtEntry(f))
    /\ [][\A r \in Reqs : ClassifiesEntries(r)]_vars

\* the crawl of directory A has returned the .srt files of A and of A/s, not the
\* .ass file of A/s
C35_Witness ==
    \E r \in Reqs : \E k \in 1..Len(req[r].probes) :
        /\ req[r].probes[k].variant = <<"A">>
        /\ Len(req[r].probes[k].files) = 2
        /\ req[r].probes[k].files[2].name = <<"2", ".", "s", "r", "t">>

\* the GET_SUBS messages accepted so far
AcceptedSoFar == {r \in 1..nreq : req[r].type = "GET_SUBS" /\ req[r].accepted}

\* the debounce record names the last accepted message, if there is one
RecordIsLastAccepted ==
    IF AcceptedSoFar = {} THEN lastRequest = [title |-> <<>>, timestamp |-> 0]
    ELSE LET last == CHOOSE r \in AcceptedSoFar : \A a \in AcceptedSoFar : a <= r
         IN lastRequest = [title |-> req[last].title, timestamp |-> req[last].arrivedAt]

\* a GET_SUBS message is accepted exactly when its title is not the recorded one
\* or the recorded time is DEBOUNCE_MS or more in the past, the record is written
\* in the step that tests it, and no other step writes it
TestAndUpdateInOneStep ==
    IF nreq' = nreq + 1 /\ req'[nreq'].type = "GET_SUBS"
    THEN /\ req'[nreq'].accepted <=>
                \/ req'[nreq'].title # lastRequest.title
                \/ now - lastRequest.timestamp >= DEBOUNCE_MS
         /\ req'[nreq'].arrivedAt = now
         /\ lastRequest' = IF req'[nreq'].accepted
                           THEN [title |-> req'[nreq'].title, timestamp |-> now]
                           ELSE lastRequest
    ELSE lastRequest' = lastRequest

\* of two messages with the same title that arrive one after the other at the
\* same time, the second is not accepted if the first was
NoTwinAccepted ==
    \A r \in 1..(nreq - 1) :
        (/\ req[r].type = "GET_SUBS" /\ req[r + 1].type = "GET_SUBS"
         /\ req[r].title = req[r + 1].title
         /\ req[r].arrivedAt = req[r + 1].arrivedAt
         /\ req[r].accepted) => ~req[r + 1].accepted

C37_SessionMapClearedAtQuiescence ==
    \A tab \in world.tabs :
        (\A r \in Reqs : ~(InFlight(req[r]) /\ req[r].tab = tab)) => activeSearches[tab] = 0

\* C38: the variant generator emits no empty string, whatever the parsed title and
\* the metadata (whitespace-only and one-character titles and synonyms included).
C38_NoEmptyVariant ==
    tPc = "generated" => \A i \in 1..Len(tOut.variants) : tOut.variants[i] # <<>>

\* C39: when the older of two searches of a tab was superseded by the newer and
\* both responses have arrived, the label names the file of the cues the newer
\* search loaded: the older search's empty response, whenever it arrives, does
\* not put "No subtitles found" over them.
C39_LabelNamesLoadedSubtitles ==
    \A a, b \in Reqs :
        (/\ a < b /\ req[a].tab = req[b].tab
         /\ req[a].superseded /\ req[b].supersedes /\ ~req[b].superseded
         /\ {a, b} \subseteq content[req[b].tab].handled
         /\ content[req[b].tab].loadedBy = b /\ req[b].resp.fileName # Null)
            => content[req[b].tab].fileName = sanitizeFileName(req[b].resp.fileName)

=============================================================================
